---- MODULE Spec2Model ----
(***************************************************************************)
(* A model of the reconciliation and persistence core of amt: the catalog  *)
(* of MediaData items with their chapters (state.py), update_media and     *)
(* migrate (media_reader.py) and the change-hash persistence of State.     *)
(***************************************************************************)
EXTENDS Integers, Sequences, FiniteSets, TLC

VARIABLES
    media,          \* State.media: global id -> MediaData (the active catalog)
    disabled_media, \* State.disabled_media: global id -> MediaData
    version,        \* all_media.get("version", 0)
    bundles,        \* State.bundles
    cookies,        \* str(session.cookies)
    cookie_hash,    \* State.cookie_hash
    hashes,         \* State.hashes: file name -> hash of a payload
    disk,           \* the files: file name -> document (absent: no such file)
    free_only,      \* settings.free_only
    pc,             \* where the control thread is
    mig,            \* the locals of a running migrate call
    last,           \* what the last completed call did (its inputs and outcome)
    io,             \* what the last load or save did to the files
    calls           \* how many calls of the tracker operations have begun

vars == <<media, disabled_media, version, bundles, cookies, cookie_hash,
          hashes, disk, free_only, pc, mig, last, io, calls>>

-----------------------------------------------------------------------------
(* Bounds of the model *)

MaxChapterId == 2

ChapterIds == 1..MaxChapterId

\* the chapter numbers a provider may report
Numbers == {1, 2}

-----------------------------------------------------------------------------
(* Small helpers *)

EmptyMap == <<>>

SetToSeqs(S) == {s \in [1..Cardinality(S) -> S] : \A i, j \in 1..Cardinality(S) : i # j => s[i] # s[j]}

Put(f, k, v) == (k :> v) @@ f

Without(f, k) == [x \in DOMAIN f \ {k} |-> f[x]]

-----------------------------------------------------------------------------
(* Entities (state.py) *)

\* ChapterData: one chapter of an item; "read" is owned by the user
ChapterData(id, number, premium, read) ==
    [id |-> id, number |-> number, premium |-> premium, read |-> read, special |-> FALSE]

\* MediaData is a dict with a separate attribute "chapters" that is not one
\* of its keys: d is the dict, chapters the attribute.
MediaData(backing_map) ==
    IF "chapters" \in DOMAIN backing_map
    THEN [d |-> Without(backing_map, "chapters"), chapters |-> backing_map["chapters"]]
    ELSE [d |-> backing_map, chapters |-> EmptyMap]

\* MediaData.__getitem__: the key "chapters" reads the attribute
GetItem(m, key) == IF key = "chapters" THEN m.chapters ELSE m.d[key]

\* dict.__setitem__ (MediaData does not override it): every key, "chapters"
\* included, is stored in the dict
SetItem(m, key, value) == [m EXCEPT !.d = Put(m.d, key, value)]

global_id(m) ==
    m.d["server_id"] \o ":" \o m.d["id"] \o m.d["season_id"]
        \o SubSeq(m.d["lang"], 1, IF Len(m.d["lang"]) < 3 THEN Len(m.d["lang"]) ELSE 3)

Max(S) == CHOOSE x \in S : \A y \in S : y <= x

get_last_chapter_number(m) ==
    IF DOMAIN m.chapters # {} THEN Max({m.chapters[x].number : x \in DOMAIN m.chapters}) ELSE 0

get_last_read(m) ==
    LET readNumbers == {m.chapters[x].number : x \in {y \in DOMAIN m.chapters : m.chapters[y].read}}
    IN IF readNumbers # {} THEN Max(readNumbers) ELSE 0

UserKeys == <<"offset", "progress", "progressVolumes", "trackers">>

-----------------------------------------------------------------------------
(* Providers (servers/*.py) *)

Servers == {"sa", "sb"}

\* Server.sync_removed: the provider "sb" cannot report deletions
sync_removed(server_id) == server_id = "sb"

\* What one fetch of a provider reports: chapter id -> number and premium flag
Listings(ids, numbers) ==
    UNION {[S -> [number : numbers, premium : BOOLEAN]] : S \in SUBSET ids}

\* Server.update_chapter_data: a known id keeps its ChapterData (and so its
\* read flag) and takes the fresh values, an unknown id is created unread
update_chapter_data(chapters, id, number, premium) ==
    IF id \in DOMAIN chapters
    THEN [chapters EXCEPT ![id] = [@ EXCEPT !.number = number, !.premium = premium]]
    ELSE Put(chapters, id, ChapterData(id, number, premium, FALSE))

\* Server.update_media_data: update_chapter_data for every fetched chapter
update_media_data(chapters, listing) ==
    [id \in DOMAIN chapters \cup DOMAIN listing |->
        IF id \in DOMAIN listing
        THEN update_chapter_data(chapters, id, listing[id].number, listing[id].premium)[id]
        ELSE chapters[id]]

-----------------------------------------------------------------------------
(* MediaReader.update_media (media_reader.py) *)

\* a variant that counts every id whatever the free_only setting is
get_chapter_ids_IgnoresFree(chapters, free) == DOMAIN chapters

get_chapter_ids(chapters, free) ==
    IF free THEN {x \in DOMAIN chapters : ~chapters[x].premium} ELSE DOMAIN chapters

\* replace is forced for a provider flagged sync_removed
EffectiveReplace(m, replace) == replace \/ sync_removed(m.d["server_id"])

\* a variant that clears the mapping in every mode
ClearChapters_Always(chapters, replace) == EmptyMap

\* a variant that never clears the mapping
ClearChapters_Never(chapters, replace) == chapters

\* "if replace: chapters = dict(...); media_data["chapters"].clear()"
ClearChapters(chapters, replace) == IF replace THEN EmptyMap ELSE chapters

\* a variant that rebuilds the item's dict from the snapshot and drops the
\* values the user had set
RestoreOnError_DropsUserFields(m, snapshot, replace) ==
    IF replace
    THEN [m EXCEPT !.d = [k \in DOMAIN m.d |-> IF k = "progress" THEN 0 ELSE m.d[k]],
                   !.chapters = snapshot]
    ELSE m

\* the except branch: media_data["chapters"] = chapters is dict.__setitem__,
\* it stores the snapshot under the dict key and leaves the attribute alone
RestoreOnError(m, snapshot, replace) ==
    IF replace THEN SetItem(m, "chapters", snapshot) ELSE m

\* a variant that leaves the fresh chapters as the provider made them
CopyReadForward_Never(current, snapshot, replace) == current

\* "if replace: for chapter in chapters: ... ["read"] = chapters[chapter]["read"]"
CopyReadForward(current, snapshot, replace) ==
    IF replace
    THEN [id \in DOMAIN current |->
            IF id \in DOMAIN snapshot
            THEN [current[id] EXCEPT !.read = snapshot[id].read]
            ELSE current[id]]
    ELSE current

\* a variant that returns the new chapters in the set's iteration order
SortedByNumber_Unsorted(chapters, ids) ==
    {[i \in 1..Cardinality(ids) |-> chapters[s[i]]] : s \in SetToSeqs(ids)}

\* sorted(..., key=number) over a set of ids: every order of the ids that is
\* ascending in number (the order of equal numbers is the set's iteration order)
SortedByNumber(chapters, ids) ==
    {[i \in 1..Cardinality(ids) |-> chapters[s[i]]] :
        s \in {t \in SetToSeqs(ids) :
                 \A i, j \in 1..Cardinality(ids) :
                    i < j => chapters[t[i]].number <= chapters[t[j]].number}}

\* One call of update_media on m: listing is what the provider populates,
\* raises whether it then raises. The result: the item afterwards, whether
\* the call raised, the id sets it computed and the lists it may return.
update_media(m, replace, listing, raises, free) ==
    LET rep == EffectiveReplace(m, replace)
        chapter_ids == get_chapter_ids(GetItem(m, "chapters"), free)
        snapshot == GetItem(m, "chapters")
        fetched == update_media_data(ClearChapters(GetItem(m, "chapters"), rep), listing)
        current_chapter_ids == get_chapter_ids(fetched, free)
        new_chapter_ids == current_chapter_ids \ chapter_ids
        final == CopyReadForward(fetched, snapshot, rep)
    IN IF raises
       THEN [m |-> RestoreOnError([m EXCEPT !.chapters = fetched], snapshot, rep),
             raised |-> TRUE, new_chapter_ids |-> {}, rets |-> {<<>>}]
       ELSE [m |-> [m EXCEPT !.chapters = final],
             raised |-> FALSE, new_chapter_ids |-> new_chapter_ids,
             rets |-> SortedByNumber(final, new_chapter_ids)]

-----------------------------------------------------------------------------
(* State: serialization, hashes and files (state.py) *)

BundleFile == "bundles.json"
MetadataFile == "metadata.json"
CookieFile == "cookies.txt"

\* settings.get_chapter_metadata_file(media_data): one file per item identity
ChapterFile(m) == "chapters/" \o global_id(m)

\* json.dumps writes a tuple as a list
JsonTrackers(trackers) == [t \in DOMAIN trackers |-> [trackers[t] EXCEPT !.kind = "list"]]

\* json.dumps of a MediaData: the entries of the dict, not the attribute
ItemDoc(m) == [k \in DOMAIN m.d |-> IF k = "trackers" THEN JsonTrackers(m.d[k]) ELSE m.d[k]]

\* json.dumps of State.all_media
AllMediaDoc(active, disabled, ver) ==
    [media |-> [k \in DOMAIN active |-> ItemDoc(active[k])],
     disabled_media |-> [k \in DOMAIN disabled |-> ItemDoc(disabled[k])],
     version |-> ver]

\* json_decoder: a dict with "server_id" becomes a MediaData
json_decoder(doc) == MediaData(doc)

\* hash(json_str); the default 0 of hashes.get never equals a hash
Hash(json_str) == [hash_of |-> json_str]
NoHash == [none |-> TRUE]

\* State.get_hash
get_hash(json_str) == <<Hash(json_str), json_str>>

\* a variant that never records the hash
save_to_file_NoHash(hs, dk, file_name, json_str, write_fails) ==
    IF write_fails
    THEN [hashes |-> hs, disk |-> dk, wrote |-> FALSE, failed |-> TRUE]
    ELSE [hashes |-> hs, disk |-> Put(dk, file_name, json_str), wrote |-> TRUE, failed |-> FALSE]

\* State.save_to_file: the hash is stored before the write is attempted, and
\* a write that fails with FileNotFoundError returns False
save_to_file(hs, dk, file_name, json_str, write_fails) ==
    LET h == get_hash(json_str)[1]
    IN IF file_name \in DOMAIN hs /\ hs[file_name] = h
       THEN [hashes |-> hs, disk |-> dk, wrote |-> FALSE, failed |-> FALSE]
       ELSE IF write_fails
       THEN [hashes |-> Put(hs, file_name, h), disk |-> dk, wrote |-> FALSE, failed |-> TRUE]
       ELSE [hashes |-> Put(hs, file_name, h), disk |-> Put(dk, file_name, json_str),
             wrote |-> TRUE, failed |-> FALSE]

\* the save_to_file calls of State.save, in order: bundles, index, then the
\* chapters of every active item
SaveJobs(bs, active, disabled, ver) ==
    <<[file |-> BundleFile, payload |-> bs],
      [file |-> MetadataFile, payload |-> AllMediaDoc(active, disabled, ver)]>>
    \o [i \in 1..Cardinality(DOMAIN active) |->
          LET k == (CHOOSE q \in SetToSeqs(DOMAIN active) : TRUE)[i]
          IN [file |-> ChapterFile(active[k]), payload |-> active[k].chapters]]

RECURSIVE SaveAll(_, _, _, _)
SaveAll(acc, jobs, failing, i) ==
    IF i > Len(jobs) THEN acc
    ELSE LET r == save_to_file(acc.hashes, acc.disk, jobs[i].file, jobs[i].payload,
                               jobs[i].file \in failing)
         IN SaveAll([hashes |-> r.hashes, disk |-> r.disk,
                     written |-> acc.written \cup (IF r.wrote THEN {jobs[i].file} ELSE {}),
                     failed |-> acc.failed \cup (IF r.failed THEN {jobs[i].file} ELSE {})],
                    jobs, failing, i + 1)

\* json.load with object_hook=json_decoder, as get_hash serializes it again:
\* the items without what MediaData keeps outside the dict
DecodedIndexDoc(doc) ==
    AllMediaDoc([k \in DOMAIN doc.media |-> json_decoder(doc.media[k])],
                [k \in DOMAIN doc.disabled_media |-> json_decoder(doc.disabled_media[k])],
                doc.version)

\* State.read_file_as_dict of a file that exists seeds the hash with the
\* hash of the decoded document
SeedHash(hs, file_name, payload) == Put(hs, file_name, get_hash(payload)[1])

\* the items of a loaded index, under the key load_media leaves them at
Rekeyed(items) ==
    [g \in {global_id(items[k]) : k \in DOMAIN items} |->
        items[CHOOSE k \in DOMAIN items : global_id(items[k]) = g]]

\* load_media's "if not media_data.chapters: ... read_file_as_dict(...)"
WithLoadedChapters(m, dk) ==
    IF DOMAIN m.chapters = {} /\ ChapterFile(m) \in DOMAIN dk
    THEN [m EXCEPT !.chapters = dk[ChapterFile(m)]]
    ELSE m

\* the chapter files load_media reads
ChapterFilesRead(items, dk) ==
    {ChapterFile(items[g]) : g \in {k \in DOMAIN items : DOMAIN items[k].chapters = {}}}
        \cap DOMAIN dk


-----------------------------------------------------------------------------
(* Items the model works with *)

\* A tracker link is stored as the tuple (tracking_id, title); a loaded one
\* comes back from JSON as a list
TrackerLink(kind, tracking_id, title) ==
    [kind |-> kind, tracking_id |-> tracking_id, title |-> title]

NoTrackers == EmptyMap
OneTracker == "anilist" :> TrackerLink("tuple", 7, "T")

\* Server.create_media_data: a fresh item as a provider constructs it
create_media_data(server_id, id, season_id, lang, name) ==
    MediaData([server_id |-> server_id, id |-> id, season_id |-> season_id,
               lang |-> lang, name |-> name, season_title |-> "", media_type |-> 1,
               offset |-> 0, progress |-> 0, progressVolumes |-> 0,
               trackers |-> NoTrackers])

\* the values a user action can leave in the four user-owned fields
FreshUser == [offset |-> 0, progress |-> 0, progressVolumes |-> 0, trackers |-> NoTrackers]
SetUser == [offset |-> 1, progress |-> 2, progressVolumes |-> 1, trackers |-> OneTracker]
UserFieldChoices == {FreshUser, SetUser}

WithUserFields(m, u) ==
    [m EXCEPT !.d = [k \in DOMAIN m.d |-> IF k \in DOMAIN u THEN u[k] ELSE m.d[k]]]

UserFields(m) == [k \in {UserKeys[i] : i \in 1..Len(UserKeys)} |-> m.d[k]]

\* every chapter mapping over the given ids
ChapterMaps(ids, numbers) ==
    UNION {{[id \in S |-> ChapterData(id, f[id].number, f[id].premium, f[id].read)] :
                f \in [S -> [number : numbers, premium : BOOLEAN, read : BOOLEAN]]} :
           S \in SUBSET ids}

NoCall == [op |-> "none"]

\* the record of the persistence layer's last step: the files the last save
\* wrote and failed to write, and the step before it
NoIo == [op |-> "none", prev |-> "none", written |-> {}, failed |-> {},
         prev_wrote |-> FALSE, clean |-> TRUE, kept |-> TRUE]

\* an entity, bundle or cookie was mutated since the last load or save
Mutated(rec) == [op |-> "mutation", prev |-> rec.op, written |-> {}, failed |-> {},
                 prev_wrote |-> FALSE, clean |-> rec.clean, kept |-> TRUE]

-----------------------------------------------------------------------------
(* SpecReconcile: one update_media call on one catalog item *)

ReconcileInit ==
    /\ \E server_id \in Servers, chs \in ChapterMaps(ChapterIds, Numbers) :
          LET m == [WithUserFields(create_media_data(server_id, "1", "", "en", "A"), SetUser)
                        EXCEPT !.chapters = chs]
          IN media = (global_id(m) :> m)
    /\ disabled_media = EmptyMap
    /\ version = 1
    /\ bundles = EmptyMap
    /\ cookies = 0
    /\ cookie_hash = NoHash
    /\ hashes = EmptyMap
    /\ disk = EmptyMap
    /\ free_only \in BOOLEAN
    /\ pc = "idle"
    /\ mig = NoCall
    /\ last = NoCall
    /\ io = NoIo
    /\ calls = 0

\* update_media(media[key], replace=replace) with the provider's behaviour
UpdateMediaCall(key, replace, listing, raises) ==
    /\ key \in DOMAIN media
    /\ LET r == update_media(media[key], replace, listing, raises, free_only)
       IN /\ media' = [media EXCEPT ![key] = r.m]
          /\ \E ret \in r.rets :
                last' = [op |-> "update_media", key |-> key, replace |-> replace,
                         listing |-> listing, pre |-> media[key], raised |-> r.raised,
                         new_chapter_ids |-> r.new_chapter_ids, ret |-> ret]
    /\ UNCHANGED <<disabled_media, version, bundles, cookies, cookie_hash,
                   hashes, disk, free_only, mig, io, calls>>

ReconcileUpdate ==
    /\ pc = "idle"
    /\ \E key \in DOMAIN media, replace \in BOOLEAN,
          listing \in Listings(ChapterIds, Numbers) :
          UpdateMediaCall(key, replace, listing, FALSE)
    /\ pc' = "returned"

ReconcileUpdateRaises ==
    /\ pc = "idle"
    /\ \E key \in DOMAIN media, replace \in BOOLEAN,
          listing \in Listings(ChapterIds, Numbers) :
          UpdateMediaCall(key, replace, listing, TRUE)
    /\ pc' = "raised"

ReconcileNext == ReconcileUpdate \/ ReconcileUpdateRaises

SpecReconcile == ReconcileInit /\ [][ReconcileNext]_vars

-----------------------------------------------------------------------------
(* Claims about update_media, checked under SpecReconcile *)

Updated == last.op = "update_media"
PreItem == last.pre
PostItem == media[last.key]
WasReplace == EffectiveReplace(last.pre, last.replace)

\* C1: when update_media runs in replace mode and the provider raises, the
\* chapters read through item["chapters"] afterwards equal the chapters
\* before the call (same ids, same read flags).
C1_RestoredOnError ==
    (Updated /\ last.raised /\ WasReplace)
        => GetItem(PostItem, "chapters") = GetItem(PreItem, "chapters")

\* C8: update_media, in either mode and whether the fetch succeeds or raises,
\* leaves offset, progress, progressVolumes and trackers as they were.
C8_UserFieldsKept ==
    Updated => UserFields(PostItem) = UserFields(PreItem)

C8_Witness ==
    /\ Updated /\ last.raised /\ WasReplace
    /\ DOMAIN PreItem.chapters # {}
    /\ UserFields(PreItem) = SetUser

\* C10: in a non-replace update_media every chapter present before and after
\* the call keeps its read flag, and with free_only off the returned chapters
\* are exactly those whose id was absent before.
C10_AdditiveKeepsRead ==
    (Updated /\ ~WasReplace) =>
        /\ \A id \in DOMAIN PreItem.chapters \cap DOMAIN PostItem.chapters :
              PostItem.chapters[id].read = PreItem.chapters[id].read
        /\ (~last.raised /\ ~free_only) =>
              {last.ret[i].id : i \in 1..Len(last.ret)}
                  = DOMAIN PostItem.chapters \ DOMAIN PreItem.chapters

C10_Witness ==
    /\ Updated /\ ~WasReplace /\ ~last.raised /\ ~free_only
    /\ Len(last.ret) = 1
    /\ \E id \in DOMAIN PreItem.chapters :
          /\ PreItem.chapters[id].read
          /\ PostItem.chapters[id].number # PreItem.chapters[id].number
          /\ PostItem.chapters[id].read

\* C11: after a replace-mode update_media that returns, the chapters are
\* those of the fresh listing with the listing's number and premium flag; a
\* chapter whose id was there before the call has the read flag it had, and
\* a chapter whose id was not is unread.
C11_ReplaceKeepsRead ==
    (Updated /\ ~last.raised /\ WasReplace) =>
        /\ DOMAIN PostItem.chapters = DOMAIN last.listing
        /\ \A id \in DOMAIN PostItem.chapters :
              /\ PostItem.chapters[id].number = last.listing[id].number
              /\ PostItem.chapters[id].premium = last.listing[id].premium
              /\ PostItem.chapters[id].read =
                    (id \in DOMAIN PreItem.chapters /\ PreItem.chapters[id].read)

\* chapter 1 was read under another number, chapter 2 is new
C11_Witness ==
    /\ Updated /\ ~last.raised /\ WasReplace
    /\ DOMAIN PreItem.chapters = {1} /\ PreItem.chapters[1].read
    /\ DOMAIN PostItem.chapters = {1, 2}
    /\ PostItem.chapters[1].number # PreItem.chapters[1].number
    /\ PostItem.chapters[1].read /\ ~PostItem.chapters[2].read

C30_ReplaceDropsAbsentIds ==
    (Updated /\ ~last.raised /\ WasReplace) =>
        /\ {PostItem.chapters[id].id : id \in DOMAIN PostItem.chapters} = DOMAIN last.listing
        /\ \A id \in DOMAIN PreItem.chapters \ DOMAIN last.listing :
              id \notin DOMAIN PostItem.chapters

\* a read chapter the provider no longer lists is dropped, another is kept
C30_Witness ==
    /\ Updated /\ ~last.raised /\ WasReplace
    /\ \E id \in DOMAIN PreItem.chapters \ DOMAIN last.listing : PreItem.chapters[id].read
    /\ DOMAIN PreItem.chapters \cap DOMAIN last.listing # {}

\* C31: with free_only on, update_media counts the ids before and after
\* over non-paywalled chapters only: it returns no paywalled chapter as new,
\* and it returns a chapter that was paywalled before the fetch and is free
\* after it; with free_only off it returns every id absent before and
\* present after, paywalled or not.
C31_FreeOnlyCountsFreeIds ==
    (Updated /\ ~last.raised) =>
        LET returned == {last.ret[i].id : i \in 1..Len(last.ret)}
        IN IF free_only
           THEN /\ \A i \in 1..Len(last.ret) : ~last.ret[i].premium
                /\ \A id \in DOMAIN PostItem.chapters :
                      (/\ id \in DOMAIN PreItem.chapters
                       /\ PreItem.chapters[id].premium
                       /\ ~PostItem.chapters[id].premium) => id \in returned
           ELSE returned = DOMAIN PostItem.chapters \ DOMAIN PreItem.chapters

\* free_only is on: a chapter that was paywalled is returned now that it is
\* free, a new paywalled one is not
C31_Witness ==
    /\ Updated /\ ~last.raised /\ free_only
    /\ \E id \in DOMAIN PreItem.chapters :
          /\ PreItem.chapters[id].premium
          /\ id \in {last.ret[i].id : i \in 1..Len(last.ret)}
    /\ \E id \in DOMAIN PostItem.chapters \ DOMAIN PreItem.chapters :
          PostItem.chapters[id].premium

-----------------------------------------------------------------------------
(* MediaData.copy_fields_to and the helpers of migrate *)

MaxResults == 2

\* copy_fields_to from key number i on: "assert key in dest" stops the copy
\* at the first missing key, the keys before it are already written
RECURSIVE CopyFieldsFrom(_, _, _)
CopyFieldsFrom(src, dest, i) ==
    IF i > Len(UserKeys) THEN [raised |-> FALSE, dest |-> dest]
    ELSE IF UserKeys[i] \notin DOMAIN dest THEN [raised |-> TRUE, dest |-> dest]
    ELSE CopyFieldsFrom(src, [dest EXCEPT ![UserKeys[i]] = src[UserKeys[i]]], i + 1)

\* a variant that forgets the tracker links
copy_fields_to_NoTrackers(src, dest) ==
    LET r == CopyFieldsFrom(src, dest, 1)
    IN IF r.raised THEN r ELSE [r EXCEPT !.dest["trackers"] = dest["trackers"]]

\* MediaData.copy_fields_to(dest) on the dicts of the two items
copy_fields_to(src, dest) == CopyFieldsFrom(src, dest, 1)

\* MediaReader.get_media(name=...): None selects every item
Selected(catalog, name) ==
    {k \in DOMAIN catalog :
        name = "None" \/ name \in {catalog[k].d["server_id"], catalog[k].d["name"], global_id(catalog[k])}}

\* what the providers list: the items a search can come back with
ProviderCatalog(server_id) ==
    IF server_id = "sa"
    THEN {create_media_data("sa", "1", "", "en", "A"), create_media_data("sa", "2", "", "en", "B")}
    ELSE {create_media_data("sb", "1", "", "en", "A"), create_media_data("sb", "3", "", "en", "B")}

\* the result lists a search over the given servers can return
SearchResults(server_ids) ==
    LET pool == UNION {ProviderCatalog(sv) : sv \in server_ids}
    IN UNION {SetToSeqs(S) : S \in {T \in SUBSET pool : Cardinality(T) <= MaxResults}}

\* list(filter(...)): the elements at the kept positions, in order
RECURSIVE FilterSeq(_, _, _)
FilterSeq(seq, kept, n) ==
    IF n > Len(seq) THEN <<>>
    ELSE IF n \in kept THEN <<seq[n]>> \o FilterSeq(seq, kept, n + 1)
    ELSE FilterSeq(seq, kept, n + 1)

\* migrate's sort key: minus the number of keys of x on which x agrees with
\* the removed item
SortKey(old, x) == 0 - Cardinality({k \in DOMAIN x.d : k \in DOMAIN old.d /\ old.d[k] = x.d[k]})

\* list.sort(key=...) given the keys of the elements: stable
StableSort(seq, keys) ==
    LET n == Len(seq)
        p == CHOOSE q \in SetToSeqs(1..n) :
                \A i, j \in 1..n : i < j =>
                    \/ keys[q[i]] < keys[q[j]]
                    \/ (keys[q[i]] = keys[q[j]] /\ q[i] < q[j])
    IN [i \in 1..n |-> seq[p[i]]]

\* the list search_add chooses from: search_for_media's exact filter, the
\* media_id filter and the sort
Candidates(old, results, exact, move_self, force_same_id) ==
    LET KeepExact(x) == ~exact \/ x.d["name"] = old.d["name"]
        KeepId(x) == ~(move_self /\ force_same_id) \/ x.d["id"] = old.d["id"]
        filtered == FilterSeq(results, {i \in 1..Len(results) :
                                           KeepExact(results[i]) /\ KeepId(results[i])}, 1)
    IN IF move_self
       THEN StableSort(filtered, [i \in 1..Len(filtered) |-> SortKey(old, filtered[i])])
       ELSE filtered

\* the servers search_add searches for a replacement of old
SearchedServers(old, move_self) ==
    IF move_self THEN {old.d["server_id"]} ELSE Servers \ {old.d["server_id"]}

\* Application.select_media: index 0 for a single result (or auto_select),
\* otherwise the index the user types; 0 stands for an invalid input (None)
Selections(results) == IF Len(results) <= 1 THEN {1} ELSE 0..Len(results)

\* mark_chapters_until_n_as_read(media_data, N, force)
mark_chapters_until_n_as_read(m, N, force) ==
    [m EXCEPT !.chapters =
        [id \in DOMAIN m.chapters |->
            IF m.chapters[id].number <= N THEN [m.chapters[id] EXCEPT !.read = TRUE]
            ELSE IF force THEN [m.chapters[id] EXCEPT !.read = FALSE]
            ELSE m.chapters[id]]]

-----------------------------------------------------------------------------
(* SpecMigrate: one migrate call over a catalog of two items *)

OtherUser == [offset |-> 2, progress |-> 1, progressVolumes |-> 0, trackers |-> NoTrackers]

\* chapters numbered like their ids, read up to r
OldChapters(r) == [n \in Numbers |-> ChapterData(n, n, FALSE, n <= r)]

\* the listings of a fetch in which no chapter is paywalled and the chapters
\* are numbered 1, 2, 1, 2, ... along their ids
FreeListings ==
    {l \in Listings(ChapterIds, Numbers) :
        \A id \in DOMAIN l : ~l[id].premium /\ l[id].number = ((id - 1) % 2) + 1}

MigrateInit ==
    /\ \E r1, r2 \in {0} \cup Numbers :
          LET m1 == [WithUserFields(create_media_data("sa", "1", "", "en", "A"), SetUser)
                        EXCEPT !.chapters = OldChapters(r1)]
              m2 == [WithUserFields(create_media_data("sa", "2", "", "en", "B"), OtherUser)
                        EXCEPT !.chapters = OldChapters(r2)]
          IN media = (global_id(m1) :> m1) @@ (global_id(m2) :> m2)
    /\ disabled_media = EmptyMap
    /\ version = 1
    /\ bundles = EmptyMap
    /\ cookies = 0
    /\ cookie_hash = NoHash
    /\ hashes = EmptyMap
    /\ disk = EmptyMap
    /\ free_only = FALSE
    /\ pc = "idle"
    /\ mig = NoCall
    /\ last = NoCall
    /\ io = NoIo
    /\ calls = 0

MigrateFrame == UNCHANGED <<disabled_media, version, bundles, cookies, cookie_hash,
                            hashes, disk, free_only, io, calls>>

\* "for media_data in list(self.get_media(name=name))": the selection is
\* taken once, in the catalog's order
MigrateBegin ==
    /\ pc = "idle"
    /\ \E name \in {"None", "A"}, exact \in BOOLEAN, move_self \in BOOLEAN,
          force_same_id \in BOOLEAN :
       \E order \in SetToSeqs(Selected(media, name)) :
          /\ force_same_id => move_self
          /\ mig' = [op |-> "migrate", name |-> name, exact |-> exact,
                     move_self |-> move_self, force_same_id |-> force_same_id,
                     selected |-> [i \in 1..Len(order) |-> media[order[i]]],
                     media_list |-> <<>>, last_read_list |-> <<>>, j |-> 1]
    /\ pc' = "migrate"
    /\ UNCHANGED <<media, last>>
    /\ MigrateFrame

InLoop == pc = "migrate" /\ Len(mig.media_list) < Len(mig.selected)
OldItem == mig.selected[Len(mig.media_list) + 1]

\* remove_media(media_data)
remove_media(catalog, m) == Without(catalog, global_id(m))

MigrateRaised(error, not_found) ==
    [op |-> "migrate", raised |-> TRUE, error |-> error, not_found |-> not_found,
     selected |-> mig.selected, media_list |-> mig.media_list,
     last_read_list |-> mig.last_read_list, failed_at |-> Len(mig.media_list) + 1]

\* one iteration of the loop in which search_add finds, adds and updates a
\* replacement and copy_fields_to succeeds
MigrateItem ==
    /\ InLoop
    /\ \E results \in SearchResults(SearchedServers(OldItem, mig.move_self)),
          listing \in FreeListings :
          LET cands == Candidates(OldItem, results, mig.exact, mig.move_self, mig.force_same_id)
              removed == remove_media(media, OldItem)
          IN /\ cands # <<>>
             /\ \E sel \in Selections(cands) :
                   /\ sel # 0
                   /\ global_id(cands[sel]) \notin DOMAIN removed
                   /\ LET upd == update_media(cands[sel], FALSE, listing, FALSE, free_only)
                          copied == copy_fields_to(OldItem.d, upd.m.d)
                      IN /\ ~copied.raised
                         /\ media' = Put(removed, global_id(cands[sel]), [upd.m EXCEPT !.d = copied.dest])
                         /\ mig' = [mig EXCEPT
                                       !.media_list = Append(@, global_id(cands[sel])),
                                       !.last_read_list = Append(@, get_last_read(OldItem))]
    /\ UNCHANGED <<pc, last>>
    /\ MigrateFrame

\* search_add returns None (no candidate, or an invalid selection):
\* copy_fields_to(None) raises TypeError out of migrate
MigrateItemNotFound ==
    /\ InLoop
    /\ \E results \in SearchResults(SearchedServers(OldItem, mig.move_self)) :
          LET cands == Candidates(OldItem, results, mig.exact, mig.move_self, mig.force_same_id)
          IN cands = <<>> \/ 0 \in Selections(cands)
    /\ media' = remove_media(media, OldItem)
    /\ last' = MigrateRaised("TypeError", TRUE)
    /\ pc' = "raised"
    /\ UNCHANGED mig
    /\ MigrateFrame

\* add_media raises ValueError: the chosen item is already in the catalog
MigrateItemKnown ==
    /\ InLoop
    /\ \E results \in SearchResults(SearchedServers(OldItem, mig.move_self)) :
          LET cands == Candidates(OldItem, results, mig.exact, mig.move_self, mig.force_same_id)
          IN /\ cands # <<>>
             /\ \E sel \in Selections(cands) :
                   sel # 0 /\ global_id(cands[sel]) \in DOMAIN remove_media(media, OldItem)
    /\ media' = remove_media(media, OldItem)
    /\ last' = MigrateRaised("ValueError", FALSE)
    /\ pc' = "raised"
    /\ UNCHANGED mig
    /\ MigrateFrame

\* the update_media of add_media raises: the new item stays in the catalog
MigrateItemUpdateRaises ==
    /\ InLoop
    /\ \E results \in SearchResults(SearchedServers(OldItem, mig.move_self)),
          listing \in FreeListings :
          LET cands == Candidates(OldItem, results, mig.exact, mig.move_self, mig.force_same_id)
              removed == remove_media(media, OldItem)
          IN /\ cands # <<>>
             /\ \E sel \in Selections(cands) :
                   /\ sel # 0
                   /\ global_id(cands[sel]) \notin DOMAIN removed
                   /\ media' = Put(removed, global_id(cands[sel]),
                                   update_media(cands[sel], FALSE, listing, TRUE, free_only).m)
    /\ last' = MigrateRaised("FetchError", FALSE)
    /\ pc' = "raised"
    /\ UNCHANGED mig
    /\ MigrateFrame

InUpdates ==
    /\ pc = "migrate"
    /\ Len(mig.media_list) = Len(mig.selected)
    /\ mig.j <= Len(mig.media_list)

\* for_each(self.update_media, media_list): one closure of the batch; a
\* closure that raises is dropped by the runner
MigrateUpdate ==
    /\ InUpdates
    /\ \E listing \in FreeListings :
          media' = [media EXCEPT ![mig.media_list[mig.j]] =
                        update_media(@, FALSE, listing, FALSE, free_only).m]
    /\ mig' = [mig EXCEPT !.j = @ + 1]
    /\ UNCHANGED <<pc, last>>
    /\ MigrateFrame

MigrateUpdateFails ==
    /\ InUpdates
    /\ \E listing \in FreeListings :
          media' = [media EXCEPT ![mig.media_list[mig.j]] =
                        update_media(@, FALSE, listing, TRUE, free_only).m]
    /\ mig' = [mig EXCEPT !.j = @ + 1]
    /\ UNCHANGED <<pc, last>>
    /\ MigrateFrame

\* "for media_data, last_read in zip(media_list, last_read_list):
\*      self.mark_chapters_until_n_as_read(new_media_data, last_read)":
\* new_media_data is the replacement of the last loop iteration
RECURSIVE MarkLoop(_, _, _, _)
MarkLoop(catalog, media_list, last_read_list, k) ==
    IF k > Len(media_list) THEN catalog
    ELSE MarkLoop(
            [catalog EXCEPT ![media_list[Len(media_list)]] =
                mark_chapters_until_n_as_read(@, last_read_list[k], FALSE)],
            media_list, last_read_list, k + 1)

MigrateMark ==
    /\ pc = "migrate"
    /\ Len(mig.media_list) = Len(mig.selected)
    /\ mig.j > Len(mig.media_list)
    /\ media' = MarkLoop(media, mig.media_list, mig.last_read_list, 1)
    /\ last' = [op |-> "migrate", raised |-> FALSE, error |-> "none", not_found |-> FALSE,
                selected |-> mig.selected, media_list |-> mig.media_list,
                last_read_list |-> mig.last_read_list, failed_at |-> 0]
    /\ pc' = "returned"
    /\ UNCHANGED mig
    /\ MigrateFrame

\* the dicts copy_fields_to may be handed: a fresh item's dict without some
\* of the user-owned keys
RawDests ==
    LET fresh == create_media_data("sb", "1", "", "en", "A").d
    IN {[k \in DOMAIN fresh \ S |-> fresh[k]] : S \in SUBSET {UserKeys[i] : i \in 1..Len(UserKeys)}}

\* media[key].copy_fields_to(dest) called on its own
CopyFieldsCall ==
    /\ pc = "idle"
    /\ \E key \in DOMAIN media, dest \in RawDests :
          LET r == copy_fields_to(media[key].d, dest)
          IN last' = [op |-> "copy_fields_to", src |-> media[key], dest |-> dest,
                      raised |-> r.raised, result |-> r.dest]
    /\ pc' = "returned"
    /\ UNCHANGED <<media, mig>>
    /\ MigrateFrame

MigrateNext ==
    \/ MigrateBegin
    \/ MigrateItem
    \/ MigrateItemNotFound
    \/ MigrateItemKnown
    \/ MigrateItemUpdateRaises
    \/ MigrateUpdate
    \/ MigrateUpdateFails
    \/ MigrateMark
    \/ CopyFieldsCall

SpecMigrate == MigrateInit /\ [][MigrateNext]_vars

-----------------------------------------------------------------------------
(* Claims about migrate and copy_fields_to, checked under SpecMigrate *)

Migrated == last.op = "migrate" /\ ~last.raised

\* the replacement of the i-th selected item, as it is in the catalog
Replacement(i) == media[last.media_list[i]]

\* C2: after migrate returns, every replacement's chapters numbered up to the
\* removed item's last-read number are read and those above it are unread,
\* for a batch of one item and of several.
C2_ReadPositionKept ==
    Migrated =>
        \A i \in 1..Len(last.media_list) :
            \A id \in DOMAIN Replacement(i).chapters :
                Replacement(i).chapters[id].read
                    = (Replacement(i).chapters[id].number <= get_last_read(last.selected[i]))

\* C3: when no replacement is found for a selected item, migrate does not
\* raise, the item is gone from the catalog and every other selected item
\* has been migrated.
C3_NotFoundIsNotFatal ==
    (last.op = "migrate" /\ last.not_found) =>
        /\ ~last.raised
        /\ global_id(last.selected[last.failed_at]) \notin DOMAIN media
        /\ Len(last.media_list) = Len(last.selected) - 1

\* C9: after a successful migrate each replacement's offset, progress,
\* progressVolumes and trackers are those of the item it replaces, and
\* copy_fields_to fails exactly when its destination lacks one of the four keys.
C9_UserFieldsCopied ==
    /\ Migrated =>
          \A i \in 1..Len(last.media_list) :
              UserFields(Replacement(i)) = UserFields(last.selected[i])
    /\ last.op = "copy_fields_to" =>
          /\ last.raised = ~({UserKeys[i] : i \in 1..Len(UserKeys)} \subseteq DOMAIN last.dest)
          /\ ~last.raised =>
                \A i \in 1..Len(UserKeys) : last.result[UserKeys[i]] = last.src.d[UserKeys[i]]

C9_Witness ==
    /\ Migrated
    /\ Len(last.media_list) = 2
    /\ \E i \in 1..2 :
          /\ UserFields(last.selected[i]) = SetUser
          /\ Replacement(i).d["server_id"] = "sb"
          /\ DOMAIN Replacement(i).chapters # {}

-----------------------------------------------------------------------------
(* SpecPersist: load, save and mutations in between, over one item *)

\* the item of this catalog as a provider constructed it and the user left it
PersistItem == WithUserFields(create_media_data("sa", "1", "", "en", "A"), SetUser)

\* what the provider of PersistItem may report
PersistListings == {EmptyMap, 1 :> [number |-> 1, premium |-> FALSE]}

\* the files as an earlier run may have left them: no index, an index with
\* the item under its global id, an index with the item under another key
PersistInit ==
    /\ \E index \in {"none", global_id(PersistItem), "legacy"},
          chapter_file \in BOOLEAN, bundle_file \in BOOLEAN, cookie_file \in BOOLEAN :
          disk = (IF index = "none" THEN EmptyMap
                  ELSE MetadataFile :> AllMediaDoc(index :> PersistItem, EmptyMap, 1))
              @@ (IF chapter_file
                  THEN ChapterFile(PersistItem) :> (1 :> ChapterData(1, 1, FALSE, FALSE))
                  ELSE EmptyMap)
              @@ (IF bundle_file THEN BundleFile :> EmptyMap ELSE EmptyMap)
              @@ (IF cookie_file THEN CookieFile :> 1 ELSE EmptyMap)
    /\ media = EmptyMap
    /\ disabled_media = EmptyMap
    /\ version = 0
    /\ bundles = EmptyMap
    /\ cookies = 0
    /\ cookie_hash = NoHash
    /\ hashes = EmptyMap
    /\ free_only = FALSE
    /\ pc = "boot"
    /\ mig = NoCall
    /\ last = NoCall
    /\ io = NoIo
    /\ calls = 0

\* State(...).load() of a new process: cookies, bundles, then load_media
PersistLoad ==
    /\ pc \in {"boot", "running"}
    /\ LET has_index == MetadataFile \in DOMAIN disk
           doc == disk[MetadataFile]
           active == IF has_index THEN [k \in DOMAIN doc.media |-> json_decoder(doc.media[k])]
                     ELSE EmptyMap
           disabled == IF has_index
                       THEN [k \in DOMAIN doc.disabled_media |-> json_decoder(doc.disabled_media[k])]
                       ELSE EmptyMap
           ver == IF has_index THEN doc.version ELSE 0
           rekeyed == Rekeyed(active)
           h1 == IF BundleFile \in DOMAIN disk
                 THEN SeedHash(EmptyMap, BundleFile, disk[BundleFile]) ELSE EmptyMap
           h2 == IF has_index
                 THEN SeedHash(h1, MetadataFile, DecodedIndexDoc(doc)) ELSE h1
       IN /\ cookies' = (IF CookieFile \in DOMAIN disk THEN disk[CookieFile] ELSE 0)
          /\ cookie_hash' = Hash(cookies')
          /\ bundles' = (IF BundleFile \in DOMAIN disk THEN disk[BundleFile] ELSE EmptyMap)
          /\ media' = [g \in DOMAIN rekeyed |-> WithLoadedChapters(rekeyed[g], disk)]
          /\ disabled_media' = disabled
          /\ version' = ver
          /\ hashes' = [f \in DOMAIN h2 \cup ChapterFilesRead(rekeyed, disk) |->
                           IF f \in DOMAIN h2 THEN h2[f] ELSE get_hash(disk[f])[1]]
    /\ pc' = "running"
    /\ io' = [op |-> "load", prev |-> io.op, written |-> {}, failed |-> {},
              prev_wrote |-> FALSE, clean |-> io.clean, kept |-> TRUE]
    /\ UNCHANGED <<disk, free_only, mig, last, calls>>

\* _set_session_hash: true iff the cookies' hash differs from the stored one
CookiesChanged == Hash(cookies) # cookie_hash

\* State.save(): the cookie file, then every save_to_file; a write can fail
\* with FileNotFoundError only where no file exists yet
PersistSave ==
    /\ pc = "running"
    /\ LET jobs == SaveJobs(bundles, media, disabled_media, version)
           cookie_disk == IF CookiesChanged THEN Put(disk, CookieFile, cookies) ELSE disk
       IN \E failing \in SUBSET ({jobs[i].file : i \in 1..Len(jobs)} \ DOMAIN disk) :
             LET r == SaveAll([hashes |-> hashes, disk |-> cookie_disk,
                               written |-> IF CookiesChanged THEN {CookieFile} ELSE {},
                               failed |-> {}], jobs, failing, 1)
             IN /\ hashes' = r.hashes
                /\ disk' = r.disk
                /\ io' = [op |-> "save", prev |-> io.op, written |-> r.written,
                          failed |-> r.failed, prev_wrote |-> io.written # {},
                          clean |-> io.clean /\ r.failed = {},
                          kept |-> \A f \in r.failed :
                                      /\ (f \in DOMAIN hashes) = (f \in DOMAIN r.hashes)
                                      /\ f \in DOMAIN hashes => hashes[f] = r.hashes[f]]
    /\ cookie_hash' = Hash(cookies)
    /\ UNCHANGED <<media, disabled_media, version, bundles, cookies, free_only, pc, mig, last, calls>>

\* State.save() when writing the cookie file raises: nothing else is saved
PersistSaveRaises ==
    /\ pc = "running"
    /\ CookiesChanged
    /\ CookieFile \notin DOMAIN disk
    /\ cookie_hash' = Hash(cookies)
    /\ io' = [op |-> "save_raised", prev |-> io.op, written |-> {}, failed |-> {CookieFile},
              prev_wrote |-> FALSE, clean |-> FALSE, kept |-> TRUE]
    /\ UNCHANGED <<media, disabled_media, version, bundles, cookies, hashes, disk,
                   free_only, pc, mig, last, calls>>

\* mark_chapters_until_n_as_read on a loaded item, when it changes a flag
PersistMarkRead ==
    /\ pc = "running"
    /\ \E key \in DOMAIN media, N \in {0} \cup Numbers, force \in BOOLEAN :
          /\ media' = [media EXCEPT ![key] = mark_chapters_until_n_as_read(@, N, force)]
          /\ media' # media
    /\ io' = Mutated(io)
    /\ UNCHANGED <<disabled_media, version, bundles, cookies, cookie_hash, hashes, disk,
                   free_only, pc, mig, last, calls>>

\* a provider logs in: the session's cookies change
PersistSetCookies ==
    /\ pc = "running"
    /\ cookies = 0
    /\ cookies' = 1
    /\ io' = Mutated(io)
    /\ UNCHANGED <<media, disabled_media, version, bundles, cookie_hash, hashes, disk,
                   free_only, pc, mig, last, calls>>

\* update_media on a loaded item, the provider answering or raising
PersistUpdateCall(key, replace, listing, raises) ==
    /\ media' = [media EXCEPT ![key] = update_media(@, replace, listing, raises, free_only).m]
    /\ io' = Mutated(io)
    /\ UNCHANGED <<disabled_media, version, bundles, cookies, cookie_hash, hashes, disk,
                   free_only, pc, mig, last, calls>>

PersistUpdate ==
    /\ pc = "running"
    /\ \E key \in DOMAIN media, replace \in BOOLEAN, listing \in PersistListings :
          PersistUpdateCall(key, replace, listing, FALSE)

PersistUpdateRaises ==
    /\ pc = "running"
    /\ \E key \in DOMAIN media, replace \in BOOLEAN, listing \in PersistListings :
          PersistUpdateCall(key, replace, listing, TRUE)

PersistNext ==
    \/ PersistLoad
    \/ PersistSave
    \/ PersistSaveRaises
    \/ PersistMarkRead
    \/ PersistSetCookies
    \/ PersistUpdate
    \/ PersistUpdateRaises

SpecPersist == PersistInit /\ [][PersistNext]_vars

-----------------------------------------------------------------------------
(* Claims about load and save, checked under SpecPersist *)

Saved == io.op = "save"

\* C4: a save that directly follows a load, nothing mutated in between,
\* writes no file and attempts no write, whatever the files were: missing
\* files and an index entry under a key other than the item's global id
\* included.
C4_LoadThenSaveWritesNothing ==
    (Saved /\ io.prev = "load") => (io.written = {} /\ io.failed = {})

\* C5: a save that directly follows a save that returned, nothing mutated in
\* between, writes no file: neither a save_to_file destination nor the
\* cookie file, and it attempts no write.
C5_SecondSaveWritesNothing ==
    (Saved /\ io.prev = "save") => (io.written = {} /\ io.failed = {})

\* the first save wrote files, the second none
C5_Witness ==
    Saved /\ io.prev = "save" /\ io.prev_wrote /\ io.written = {}

\* the payload a destination holds, as a load of it would hash it
AsLoaded(file_name, doc) == IF file_name = MetadataFile THEN DecodedIndexDoc(doc) ELSE doc

\* C6: in every state the hash stored for a destination is the hash of the
\* payload the file holds, as written or as loaded, and a save_to_file whose
\* write failed left the stored hash as it was.
C6_HashIsOfLastWrittenPayload ==
    /\ \A f \in DOMAIN hashes :
          /\ f \in DOMAIN disk
          /\ \/ hashes[f] = Hash(disk[f])
             \/ hashes[f] = Hash(AsLoaded(f, disk[f]))
    /\ Saved => io.kept

\* C7: after a save in which no write failed, and before which no write ever
\* failed, the index file holds the serialization of the catalog in memory
\* and the chapter file of every active item holds its chapters.
C7_SavedFilesMatchMemory ==
    (Saved /\ io.failed = {} /\ io.clean) =>
        /\ MetadataFile \in DOMAIN disk
        /\ disk[MetadataFile] = AllMediaDoc(media, disabled_media, version)
        /\ \A k \in DOMAIN media :
              /\ ChapterFile(media[k]) \in DOMAIN disk
              /\ disk[ChapterFile(media[k])] = media[k].chapters

\* C20: the serialized catalog index never contains an item's chapters: in
\* every reachable state no item's own dict entries include the key
\* "chapters", and neither does any item of the index file on disk.
C20_IndexWithoutChapters ==
    /\ \A k \in DOMAIN media : "chapters" \notin DOMAIN media[k].d
    /\ \A k \in DOMAIN disabled_media : "chapters" \notin DOMAIN disabled_media[k].d
    /\ MetadataFile \in DOMAIN disk =>
          \A part \in {"media", "disabled_media"} :
             \A k \in DOMAIN disk[MetadataFile][part] :
                "chapters" \notin DOMAIN disk[MetadataFile][part][k]

-----------------------------------------------------------------------------
(* Trackers: links, sync_progress, load_from_tracker (media_reader.py) *)

MaxCalls == 2
MaxEntries == 2

\* Chapter numbers and progress are floats; under SpecTracker they are
\* written in halves (2 is 1.0, 3 is 1.5). int() truncates towards zero:
\* int(1.5) is 1 and int(-0.5) is 0.
int(x) == IF x >= 0 THEN x - (x % 2) ELSE 0 - ((0 - x) - ((0 - x) % 2))

\* get_primary_tracker().id
PrimaryTracker == "anilist"

\* get_tracker_info(media_data, tracker_id) is not None
has_tracker_info(m, tracker_id) == tracker_id \in DOMAIN m.d["trackers"]

\* get_tracker_info(media_data, tracker_id), where there is one
get_tracker_info(m, tracker_id) == m.d["trackers"][tracker_id]

\* get_tracked_media(tracker_id, tracking_id): the keys of the linked items
get_tracked_media(catalog, tracker_id, tracking_id) ==
    {k \in DOMAIN catalog :
        /\ has_tracker_info(catalog[k], tracker_id)
        /\ get_tracker_info(catalog[k], tracker_id).tracking_id = tracking_id}

\* track(media_data, tracker_id, tracking_id, tracker_title)
track(m, tracker_id, tracking_id, tracker_title) ==
    [m EXCEPT !.d["trackers"] = Put(@, tracker_id, TrackerLink("tuple", tracking_id, tracker_title))]

\* remove_tracker's "del media_data["trackers"][tracker_id]"
remove_tracker(m, tracker_id) == [m EXCEPT !.d["trackers"] = Without(@, tracker_id)]

\* sync_progress's test "force or media_data["progress"] < int(get_last_read())"
NeedsSync(m, force) == force \/ m.d["progress"] < int(get_last_read(m))

\* the keys of the items sync_progress stages an update for
Staged(catalog, force) ==
    {k \in DOMAIN catalog :
        has_tracker_info(catalog[k], PrimaryTracker) /\ NeedsSync(catalog[k], force)}

\* a variant that leaves progress for after the tracker's answer
AdvanceProgress_Later(catalog, staged) == catalog

\* "media_data["progress"] = last_read" for every staged item
AdvanceProgress(catalog, staged) ==
    [k \in DOMAIN catalog |->
        IF k \in staged THEN SetItem(catalog[k], "progress", get_last_read(catalog[k]))
        ELSE catalog[k]]

\* the tuples sync_progress hands to tracker.update
SyncData(catalog, staged) ==
    {<<get_tracker_info(catalog[k], PrimaryTracker).tracking_id, get_last_read(catalog[k]),
       catalog[k].d["progressVolumes"]>> : k \in staged}

\* a variant that moves the offset into the item's id
offset_IntoId(m, new_offset) == [m EXCEPT !.d["id"] = "0"]

\* A chapter number is a Python float: a binary floating-point number with a
\* fixed count of significant bits (53 in the interpreter, Precision here).
\* Numbers are written as integer multiples of one binary unit, which leaves
\* the rounding of a result the same at every scale.
Precision == 4

RECURSIVE Pow2(_)
Pow2(n) == IF n = 0 THEN 1 ELSE 2 * Pow2(n - 1)

Abs(x) == IF x < 0 THEN -x ELSE x

\* the spacing of the floats around a magnitude
RECURSIVE Spacing(_, _)
Spacing(a, s) == IF a < Pow2(Precision) * s THEN s ELSE Spacing(a, 2 * s)

\* the float nearest to an exact result, ties to the even significand
RoundToFloat(x) ==
    LET a == Abs(x)
        s == Spacing(a, 1)
        q == a \div s
        r == a % s
        up == \/ 2 * r > s
              \/ (2 * r = s /\ q % 2 = 1)
        rounded == (IF up THEN q + 1 ELSE q) * s
    IN IF x < 0 THEN -rounded ELSE rounded

\* float.__sub__: chapter["number"] -= diff_offset
FloatSub(a, b) == RoundToFloat(a - b)

\* offset(name, offset) on one item: the numbers move by the difference
offset(m, new_offset) ==
    LET diff_offset == new_offset - m.d["offset"]
    IN [SetItem(m, "offset", new_offset) EXCEPT !.chapters =
           [id \in DOMAIN m.chapters |->
               [m.chapters[id] EXCEPT !.number = FloatSub(@, diff_offset)]]]

\* mark_read(name, N, force, abs) on one item
mark_read(m, N, force, abs) ==
    LET wanted == IF abs THEN N ELSE get_last_chapter_number(m) + N
        last_read == IF force THEN wanted ELSE Max({get_last_read(m), wanted})
    IN mark_chapters_until_n_as_read(m, last_read, force)

\* str.lower() over the letters the names are written with
LowerChar(c) == IF c = "A" THEN "a" ELSE IF c = "B" THEN "b" ELSE c

RECURSIVE lower(_)
lower(str) ==
    IF str = "" THEN "" ELSE LowerChar(SubSeq(str, 1, 1)) \o lower(SubSeq(str, 2, Len(str)))

\* str.startswith
startswith(str, prefix) ==
    Len(prefix) <= Len(str) /\ SubSeq(str, 1, Len(prefix)) = prefix

\* \W of the regular expressions: a blank or a punctuation mark
NonWord(c) == c \in {" ", "!"}

\* re.sub(r"\W*$", "", name): the name without its trailing non-word characters
RECURSIVE StripTrailingNonWord(_)
StripTrailingNonWord(name) ==
    IF name # "" /\ NonWord(SubSeq(name, Len(name), Len(name)))
    THEN StripTrailingNonWord(SubSeq(name, 1, Len(name) - 1))
    ELSE name

\* re.sub(r"[^\w\d\s]+.*$", "", name): the name up to its first punctuation mark
RECURSIVE CutAtPunctuation(_)
CutAtPunctuation(name) ==
    IF name = "" \/ SubSeq(name, 1, 1) = "!" THEN ""
    ELSE SubSeq(name, 1, 1) \o CutAtPunctuation(SubSeq(name, 2, Len(name)))

\* dict.fromkeys([...]): the three spellings, duplicates dropped, in order
alt_names(name) ==
    LET a == name
        b == StripTrailingNonWord(name)
        c == CutAtPunctuation(name)
    IN <<a>> \o (IF b # a THEN <<b>> ELSE <<>>) \o (IF c # a /\ c # b THEN <<c>> ELSE <<>>)

\* _search_for_tracked_media.name_matches_media
name_matches_media(name, m) ==
    \/ startswith(lower(name), lower(m.d["name"]))
    \/ startswith(lower(name), lower(m.d["season_title"]))
    \/ lower(name) \in {lower(m.d["name"]), lower(m.d["season_title"])}

\* the filter of _search_for_tracked_media for one spelling: the items without
\* a link to the primary tracker, of the entry's kind, whose names match
KnownMatching(catalog, name, media_type) ==
    {k \in DOMAIN catalog :
        /\ ~has_tracker_info(catalog[k], PrimaryTracker)
        /\ media_type = catalog[k].d["media_type"]
        /\ name_matches_media(name, catalog[k])}

\* known_matching_media after the loop over the spellings: the matches of the
\* first spelling that has any
RECURSIVE FirstKnownMatching(_, _, _, _)
FirstKnownMatching(catalog, names, media_type, i) ==
    IF i > Len(names) THEN {}
    ELSE IF KnownMatching(catalog, names[i], media_type) # {}
    THEN KnownMatching(catalog, names[i], media_type)
    ELSE FirstKnownMatching(catalog, names, media_type, i + 1)

\* select_media over the known matches: the only one, or the one the user
\* picks, or None for an invalid input
LocalChoices(known) == IF Cardinality(known) = 1 THEN known ELSE known \cup {"None"}

\* a variant that records the progress without marking chapters
ApplyEntry_ProgressOnly(m, entry, force) ==
    SetItem(m, "progress",
            IF m.d["progressVolumes"] = 0 THEN entry.progress ELSE entry.progressVolumes)

\* the body of load_from_tracker's loop over media_data_list
ApplyEntry(m, entry, force) ==
    LET progress == IF m.d["progressVolumes"] = 0 THEN entry.progress ELSE entry.progressVolumes
    IN SetItem(mark_chapters_until_n_as_read(m, progress, force), "progress", progress)

-----------------------------------------------------------------------------
(* SpecTracker: up to MaxCalls operations on a catalog of two items *)

\* what the providers report under SpecTracker: numbers in halves, no paywall
TrackerListings ==
    {EmptyMap,
     1 :> [number |-> 2, premium |-> FALSE],
     (1 :> [number |-> 2, premium |-> FALSE]) @@ (2 :> [number |-> 4, premium |-> FALSE])}

\* Tracker.get_media_dict: one entry of the tracker's list
TrackerEntry(id, name, progress) ==
    [id |-> id, media_type |-> 1, name |-> name, progress |-> progress, progressVolumes |-> 2]

\* the entries the tracker can report
TrackerEntries == {TrackerEntry(7, "a!", 2), TrackerEntry(8, "B", 4)}

\* tracker.get_tracker_list: lists of entries with distinct ids
TrackerLists ==
    {l \in UNION {[1..n -> TrackerEntries] : n \in 1..MaxEntries} :
        \A i, j \in 1..Len(l) : i # j => l[i].id # l[j].id}

TrackerInit ==
    /\ \E linkX, linkY \in BOOLEAN, readX \in 0..2, progressX \in {0, 2}, volumesY \in {0, 2} :
          LET x0 == SetItem(create_media_data("sa", "1", "", "en", "A"), "season_title", "A1")
              x1 == SetItem(IF linkX THEN track(x0, PrimaryTracker, 7, "a!") ELSE x0,
                            "progress", progressX)
              x == [x1 EXCEPT !.chapters = (1 :> ChapterData(1, 2, FALSE, readX >= 1))
                                        @@ (2 :> ChapterData(2, 3, FALSE, readX >= 2))]
              y0 == create_media_data("sa", "2", "", "en", "B")
              y1 == SetItem(IF linkY THEN track(y0, PrimaryTracker, 8, "B") ELSE y0,
                            "progressVolumes", volumesY)
              y == [y1 EXCEPT !.chapters = 1 :> ChapterData(1, 2, FALSE, FALSE)]
          IN media = (global_id(x) :> x) @@ (global_id(y) :> y)
    /\ disabled_media = EmptyMap
    /\ version = 1
    /\ bundles = EmptyMap
    /\ cookies = 0
    /\ cookie_hash = NoHash
    /\ hashes = EmptyMap
    /\ disk = EmptyMap
    /\ free_only = FALSE
    /\ pc = "idle"
    /\ mig = NoCall
    /\ last = NoCall
    /\ io = NoIo
    /\ calls = 0

TrackerFrame == UNCHANGED <<disabled_media, version, bundles, cookies, cookie_hash,
                            hashes, disk, free_only, io>>

\* a call can begin
CanCall == pc = "idle" /\ calls < MaxCalls

\* update_media on one item, the provider answering or raising
TrackerUpdateMedia ==
    /\ CanCall
    /\ \E key \in DOMAIN media, replace \in BOOLEAN, listing \in TrackerListings,
          raises \in BOOLEAN :
          media' = [media EXCEPT ![key] = update_media(@, replace, listing, raises, free_only).m]
    /\ last' = [op |-> "update_media_of_tracked"]
    /\ calls' = calls + 1
    /\ UNCHANGED <<pc, mig>>
    /\ TrackerFrame

\* mark_read(name=key, N, force, abs)
TrackerMarkRead ==
    /\ CanCall
    /\ \E key \in DOMAIN media, N \in {0 - 2, 0}, force \in BOOLEAN, abs \in BOOLEAN :
          media' = [media EXCEPT ![key] = mark_read(@, N, force, abs)]
    /\ last' = [op |-> "mark_read"]
    /\ calls' = calls + 1
    /\ UNCHANGED <<pc, mig>>
    /\ TrackerFrame

\* offset(name=key, offset)
TrackerOffset ==
    /\ CanCall
    /\ \E key \in DOMAIN media, new_offset \in {0, 2} :
          media' = [media EXCEPT ![key] = offset(@, new_offset)]
    /\ last' = [op |-> "offset"]
    /\ calls' = calls + 1
    /\ UNCHANGED <<pc, mig>>
    /\ TrackerFrame

\* track(media_data, primary tracker, tracking_id, title)
TrackerTrack ==
    /\ CanCall
    /\ \E key \in DOMAIN media, tracking_id \in {7, 8} :
          media' = [media EXCEPT ![key] = track(@, PrimaryTracker, tracking_id, "T")]
    /\ last' = [op |-> "track"]
    /\ calls' = calls + 1
    /\ UNCHANGED <<pc, mig>>
    /\ TrackerFrame

\* remove_tracker(name=key) of an item that has the link
TrackerUntrack ==
    /\ CanCall
    /\ \E key \in DOMAIN media :
          /\ has_tracker_info(media[key], PrimaryTracker)
          /\ media' = [media EXCEPT ![key] = remove_tracker(@, PrimaryTracker)]
    /\ last' = [op |-> "remove_tracker"]
    /\ calls' = calls + 1
    /\ UNCHANGED <<pc, mig>>
    /\ TrackerFrame

\* sync_progress(force, dry_run) up to the call of tracker.update: the loop
\* stages the items and advances their progress
SyncProgress ==
    /\ CanCall
    /\ \E force \in BOOLEAN, dry_run \in BOOLEAN :
          LET staged == Staged(media, force)
              rec == [op |-> "sync_progress", force |-> force, dry_run |-> dry_run,
                      pre |-> media, staged |-> staged, data |-> SyncData(media, staged),
                      raised |-> FALSE]
          IN /\ media' = AdvanceProgress(media, staged)
             /\ IF staged # {} /\ ~dry_run
                THEN pc' = "tracker_update" /\ mig' = rec /\ last' = NoCall
                ELSE pc' = "idle" /\ last' = rec /\ UNCHANGED mig
    /\ calls' = calls + 1
    /\ TrackerFrame

\* tracker.update(data) returns
TrackerUpdateReturns ==
    /\ pc = "tracker_update"
    /\ pc' = "idle"
    /\ last' = mig
    /\ mig' = NoCall
    /\ UNCHANGED <<media, calls>>
    /\ TrackerFrame

\* tracker.update(data) raises out of sync_progress
TrackerUpdateRaises ==
    /\ pc = "tracker_update"
    /\ pc' = "raised"
    /\ last' = [mig EXCEPT !.raised = TRUE]
    /\ mig' = NoCall
    /\ UNCHANGED <<media, calls>>
    /\ TrackerFrame

\* load_from_tracker(...): the list is fetched, the loop begins
LoadBegin ==
    /\ CanCall
    /\ \E data \in TrackerLists, force \in BOOLEAN, local_only \in BOOLEAN,
          update_progress_only \in BOOLEAN :
          /\ ~(local_only /\ update_progress_only)
          /\ mig' = [op |-> "load_from_tracker", data |-> data, force |-> force,
                  local_only |-> local_only, update_progress_only |-> update_progress_only,
                  pre |-> media, i |-> 1, unknown_media |-> <<>>, applied |-> <<>>,
                  raised |-> FALSE, error |-> "none"]
    /\ pc' = "load"
    /\ last' = NoCall
    /\ calls' = calls + 1
    /\ UNCHANGED media
    /\ TrackerFrame

InLoad == pc = "load" /\ mig.i <= Len(mig.data)
Entry == mig.data[mig.i]
Tracked == get_tracked_media(media, PrimaryTracker, Entry.id)
Known == FirstKnownMatching(media, alt_names(Entry.name), Entry.media_type, 1)

\* the locals after the entry was applied to the items of keys
EntryApplied(keys) ==
    [mig EXCEPT !.i = @ + 1, !.applied = Append(@, [entry |-> Entry, keys |-> keys])]

\* the locals after the entry was passed over
EntryPassed(unknown) ==
    [mig EXCEPT !.i = @ + 1,
                !.unknown_media = IF unknown THEN Append(@, Entry.name) ELSE @]

\* the entry's items are already linked: their progress is set
LoadEntryLinked ==
    /\ InLoad
    /\ Tracked # {}
    /\ media' = [k \in DOMAIN media |->
                    IF k \in Tracked THEN ApplyEntry(media[k], Entry, mig.force) ELSE media[k]]
    /\ mig' = EntryApplied(Tracked)
    /\ UNCHANGED <<pc, last, calls>>
    /\ TrackerFrame

\* no linked item and update_progress_only: "continue"
LoadEntrySkipped ==
    /\ InLoad
    /\ Tracked = {}
    /\ mig.update_progress_only
    /\ mig' = EntryPassed(FALSE)
    /\ UNCHANGED <<media, pc, last, calls>>
    /\ TrackerFrame

\* an unlinked item of the catalog matches the entry's name: the chosen item
\* is linked and its progress set; an invalid choice leaves the entry unmatched
LoadEntryLocal ==
    /\ InLoad
    /\ Tracked = {}
    /\ ~mig.update_progress_only
    /\ Known # {}
    /\ \E choice \in LocalChoices(Known) :
          IF choice = "None"
          THEN mig' = EntryPassed(TRUE) /\ UNCHANGED media
          ELSE /\ media' = [media EXCEPT ![choice] =
                               ApplyEntry(track(@, PrimaryTracker, Entry.id, Entry.name),
                                          Entry, mig.force)]
               /\ mig' = EntryApplied({choice})
    /\ UNCHANGED <<pc, last, calls>>
    /\ TrackerFrame

\* no local match: search_add finds an item the catalog does not have,
\* add_media adds and updates it, it is linked and its progress set
LoadEntryAdded ==
    /\ InLoad
    /\ Tracked = {}
    /\ ~mig.update_progress_only
    /\ Known = {}
    /\ ~mig.local_only
    /\ \E results \in SearchResults(Servers), listing \in TrackerListings :
       \E sel \in Selections(results) :
          /\ results # <<>>
          /\ sel # 0
          /\ global_id(results[sel]) \notin DOMAIN media
          /\ LET added == update_media(results[sel], FALSE, listing, FALSE, free_only).m
                 linked == track(added, PrimaryTracker, Entry.id, Entry.name)
             IN media' = Put(media, global_id(results[sel]), ApplyEntry(linked, Entry, mig.force))
          /\ mig' = EntryApplied({global_id(results[sel])})
    /\ UNCHANGED <<pc, last, calls>>
    /\ TrackerFrame

\* no local match, and the search is not made (local_only), finds nothing,
\* or the choice among its results is invalid: the entry is unmatched
LoadEntryUnknown ==
    /\ InLoad
    /\ Tracked = {}
    /\ ~mig.update_progress_only
    /\ Known = {}
    /\ mig' = EntryPassed(TRUE)
    /\ UNCHANGED <<media, pc, last, calls>>
    /\ TrackerFrame

\* the locals as the record of a call that ended
LoadOutcome(raised, error) == [mig EXCEPT !.raised = raised, !.error = error]

\* no local match and search_add chooses an item whose global id is in the
\* catalog: add_media raises ValueError out of load_from_tracker
LoadEntryKnownRaises ==
    /\ InLoad
    /\ Tracked = {}
    /\ ~mig.update_progress_only
    /\ Known = {}
    /\ ~mig.local_only
    /\ \E results \in SearchResults(Servers) :
       \E sel \in Selections(results) :
          results # <<>> /\ sel # 0 /\ global_id(results[sel]) \in DOMAIN media
    /\ last' = LoadOutcome(TRUE, "ValueError")
    /\ mig' = NoCall
    /\ pc' = "raised"
    /\ UNCHANGED <<media, calls>>
    /\ TrackerFrame

\* the update_media of add_media raises: the new item stays, unlinked
LoadEntryFetchRaises ==
    /\ InLoad
    /\ Tracked = {}
    /\ ~mig.update_progress_only
    /\ Known = {}
    /\ ~mig.local_only
    /\ \E results \in SearchResults(Servers), listing \in TrackerListings :
       \E sel \in Selections(results) :
          /\ results # <<>>
          /\ sel # 0
          /\ global_id(results[sel]) \notin DOMAIN media
          /\ media' = Put(media, global_id(results[sel]),
                          update_media(results[sel], FALSE, listing, TRUE, free_only).m)
    /\ last' = LoadOutcome(TRUE, "FetchError")
    /\ mig' = NoCall
    /\ pc' = "raised"
    /\ UNCHANGED calls
    /\ TrackerFrame

\* the loop is over: load_from_tracker returns its counts
LoadEnd ==
    /\ pc = "load"
    /\ mig.i > Len(mig.data)
    /\ last' = LoadOutcome(FALSE, "none")
    /\ mig' = NoCall
    /\ pc' = "idle"
    /\ UNCHANGED <<media, calls>>
    /\ TrackerFrame

TrackerNext ==
    \/ TrackerUpdateMedia
    \/ TrackerMarkRead
    \/ TrackerOffset
    \/ TrackerTrack
    \/ TrackerUntrack
    \/ SyncProgress
    \/ TrackerUpdateReturns
    \/ TrackerUpdateRaises
    \/ LoadBegin
    \/ LoadEntryLinked
    \/ LoadEntrySkipped
    \/ LoadEntryLocal
    \/ LoadEntryAdded
    \/ LoadEntryUnknown
    \/ LoadEntryKnownRaises
    \/ LoadEntryFetchRaises
    \/ LoadEnd

SpecTracker == TrackerInit /\ [][TrackerNext]_vars

-----------------------------------------------------------------------------
(* Claims about the tracker operations, checked under SpecTracker *)

Loaded == last.op = "load_from_tracker"
Synced == last.op = "sync_progress"

\* C13: load_from_tracker goes through every entry of the list: an entry
\* with no local match whose provider-wide search finds nothing, or only an
\* item the catalog already has, is collected as unmatched and does not raise
\* (a provider that fails while the new item is fetched is another matter).
C13_UnmatchedNeverFatal ==
    (Loaded /\ last.error # "FetchError") =>
        /\ ~last.raised
        /\ last.i = Len(last.data) + 1

\* C14: sync_progress stages exactly the items that have a link to the
\* primary tracker and, unless force is set, a last-read number greater than
\* their progress, fractional numbers included.
C14_StagesExactlyTheAdvanced ==
    Synced =>
        last.staged = {k \in DOMAIN last.pre :
                          /\ has_tracker_info(last.pre[k], PrimaryTracker)
                          /\ last.force \/ get_last_read(last.pre[k]) > last.pre[k].d["progress"]}

\* C15: the progress of every staged item is its last-read number when
\* tracker.update is called, and stays so when that call returns or raises.
C15_ProgressAdvancedBeforeUpdate ==
    /\ pc = "tracker_update" =>
          \A k \in mig.staged : media[k].d["progress"] = get_last_read(mig.pre[k])
    /\ Synced =>
          \A k \in last.staged : media[k].d["progress"] = get_last_read(last.pre[k])

\* the tracker raised after an item's progress was advanced
C15_Witness ==
    /\ Synced /\ last.raised
    /\ \E k \in last.staged :
          /\ last.pre[k].d["progress"] < get_last_read(last.pre[k])
          /\ media[k].d["progress"] = get_last_read(last.pre[k])

\* the value an entry sets on an item: the volume progress when the item's
\* progressVolumes is set
EntryValue(m, entry) == IF m.d["progressVolumes"] = 0 THEN entry.progress ELSE entry.progressVolumes

\* C16: after load_from_tracker returns, every item an entry was applied to
\* has the entry's value as progress and every chapter numbered up to it
\* read; the chapters above it are unread with force and keep their flag
\* without (a chapter of a newly added item is unread).
C16_EntryProgressApplied ==
    (Loaded /\ ~last.raised) =>
        \A n \in 1..Len(last.applied) :
            \A k \in last.applied[n].keys :
                LET v == EntryValue(media[k], last.applied[n].entry)
                IN /\ media[k].d["progress"] = v
                   /\ get_tracker_info(media[k], PrimaryTracker).tracking_id
                         = last.applied[n].entry.id
                   /\ \A id \in DOMAIN media[k].chapters :
                         media[k].chapters[id].read =
                            IF media[k].chapters[id].number <= v THEN TRUE
                            ELSE IF last.force THEN FALSE
                            ELSE k \in DOMAIN last.pre /\ last.pre[k].chapters[id].read

\* one entry found its item linked and cleared a flag above its value,
\* another was linked to an item the search added
C16_Witness ==
    /\ Loaded /\ ~last.raised /\ last.force
    /\ Len(last.applied) = 2
    /\ \E n \in 1..2 : \E k \in last.applied[n].keys :
          /\ k \in DOMAIN last.pre
          /\ \E id \in DOMAIN media[k].chapters :
                last.pre[k].chapters[id].read /\ ~media[k].chapters[id].read
    /\ \E n \in 1..2 : \E k \in last.applied[n].keys :
          /\ k \notin DOMAIN last.pre
          /\ \E id \in DOMAIN media[k].chapters : media[k].chapters[id].read

\* C17: no operation on an item changes its global id, which is made of
\* server_id, id, season_id and lang alone: items that agree on the four have
\* the same global id.
C17_GlobalIdStable ==
    [][/\ \A k \in DOMAIN media \cap DOMAIN media' :
             global_id(media'[k]) = global_id(media[k])
       /\ \A k1, k2 \in DOMAIN media' :
             (\A f \in {"server_id", "id", "season_id", "lang"} :
                 media'[k1].d[f] = media'[k2].d[f])
                => global_id(media'[k1]) = global_id(media'[k2])]_vars

\* an item went through MaxCalls operations, the last an offset on an item
\* with a link
C17_Witness ==
    /\ calls = MaxCalls
    /\ last.op = "offset"
    /\ \E k \in DOMAIN media :
          /\ media[k].d["offset"] # 0
          /\ has_tracker_info(media[k], PrimaryTracker)
          /\ global_id(media[k]) = k

\* C39: while load_from_tracker looks for an entry's item, every candidate
\* among the known items has no link to the primary tracker, is of the
\* entry's kind, and has a non-empty name or a non-empty season_title that
\* the entry's name, in lower case, equals or begins with: an empty
\* season_title makes no item a candidate.
C39_CandidatesMatchByName ==
    InLoad =>
        \A k \in Known :
            /\ ~has_tracker_info(media[k], PrimaryTracker)
            /\ media[k].d["media_type"] = Entry.media_type
            /\ \E f \in {"name", "season_title"} :
                  /\ media[k].d[f] # ""
                  /\ startswith(lower(Entry.name), lower(media[k].d[f]))

-----------------------------------------------------------------------------
(* SpecIdentity: two items as providers construct them are added in turn *)

\* the four identity components
IdentityKeys == {"server_id", "id", "season_id", "lang"}

\* the items the providers can construct
IdentityItems ==
    {create_media_data(server_id, id, season_id, lang, "A") :
        server_id \in Servers, id \in {"1", "12"}, season_id \in {"", "2"},
        lang \in {"en", "eng", "engl"}}

SameIdentity(a, b) == \A f \in IdentityKeys : a.d[f] = b.d[f]

IdentityInit ==
    /\ \E a, b \in IdentityItems :
          /\ ~SameIdentity(a, b)
          /\ mig = [op |-> "add_media", items |-> <<a, b>>, i |-> 1]
    /\ media = EmptyMap
    /\ disabled_media = EmptyMap
    /\ version = 1
    /\ bundles = EmptyMap
    /\ cookies = 0
    /\ cookie_hash = NoHash
    /\ hashes = EmptyMap
    /\ disk = EmptyMap
    /\ free_only = FALSE
    /\ pc = "adding"
    /\ last = NoCall
    /\ io = NoIo
    /\ calls = 0

IdentityFrame == UNCHANGED <<disabled_media, version, bundles, cookies, cookie_hash,
                             hashes, disk, free_only, io, calls>>

\* add_media(media_data, no_update=True) of an item whose global id is new
IdentityAdd ==
    /\ pc = "adding"
    /\ mig.i <= Len(mig.items)
    /\ global_id(mig.items[mig.i]) \notin DOMAIN media
    /\ media' = Put(media, global_id(mig.items[mig.i]), mig.items[mig.i])
    /\ last' = [op |-> "add_media", raised |-> FALSE, item |-> mig.items[mig.i]]
    /\ mig' = [mig EXCEPT !.i = @ + 1]
    /\ UNCHANGED pc
    /\ IdentityFrame

\* add_media raises ValueError: the global id is already known
IdentityAddKnown ==
    /\ pc = "adding"
    /\ mig.i <= Len(mig.items)
    /\ global_id(mig.items[mig.i]) \in DOMAIN media
    /\ last' = [op |-> "add_media", raised |-> TRUE, item |-> mig.items[mig.i],
                known |-> media[global_id(mig.items[mig.i])]]
    /\ pc' = "raised"
    /\ UNCHANGED <<media, mig>>
    /\ IdentityFrame

IdentityNext == IdentityAdd \/ IdentityAddKnown

SpecIdentity == IdentityInit /\ [][IdentityNext]_vars

\* C18: items that differ in server_id, id, season_id or lang have different
\* global ids: add_media refuses an item as already known only when the
\* catalog holds an item of the same four components.
C18_GlobalIdUnique ==
    (last.op = "add_media" /\ last.raised) =>
        /\ global_id(last.item) = global_id(last.known)
        /\ SameIdentity(last.item, last.known)

-----------------------------------------------------------------------------
(* SpecConfigure: the catalog's two partitions and configure_media (state.py) *)

\* a variant without the second loop: a disabled item is never re-enabled
configure_media_NeverEnables(active, disabled, server_list) ==
    LET moved == {k \in DOMAIN active : GetItem(active[k], "server_id") \notin server_list}
    IN [media |-> [k \in DOMAIN active \ moved |-> active[k]],
        disabled_media |-> [k \in DOMAIN disabled \cup moved |->
                               IF k \in moved THEN active[k] ELSE disabled[k]]]

\* State.configure_media: the first loop moves the active items of absent
\* servers to disabled_media, the second moves the disabled items of present
\* servers to media; an assignment under a key that exists overwrites it
configure_media(active, disabled, server_list) ==
    LET moved == {k \in DOMAIN active : GetItem(active[k], "server_id") \notin server_list}
        media1 == [k \in DOMAIN active \ moved |-> active[k]]
        disabled1 == [k \in DOMAIN disabled \cup moved |->
                         IF k \in moved THEN active[k] ELSE disabled[k]]
        back == {k \in DOMAIN disabled1 : GetItem(disabled1[k], "server_id") \in server_list}
    IN [media |-> [k \in DOMAIN media1 \cup back |->
                      IF k \in back THEN disabled1[k] ELSE media1[k]],
        disabled_media |-> [k \in DOMAIN disabled1 \ back |-> disabled1[k]]]

\* the forms one catalog item can have: as created, or with user fields set
\* and one read chapter
ConfigureForms(server_id, id) ==
    {create_media_data(server_id, id, "", "en", "A"),
     [WithUserFields(create_media_data(server_id, id, "", "en", "A"), SetUser)
         EXCEPT !.chapters = (1 :> ChapterData(1, 1, FALSE, TRUE))]}

\* the catalogs an earlier run can leave: each identity absent or in one form
ConfigureCatalogs ==
    LET idents == Servers \X {"1", "2"}
    IN UNION {{[k \in {global_id(f[x]) : x \in S} |->
                   f[CHOOSE x \in S : global_id(f[x]) = k]] :
                 f \in {g \in [S -> UNION {ConfigureForms(x[1], x[2]) : x \in S}] :
                           \A x \in S : g[x] \in ConfigureForms(x[1], x[2])}} :
              S \in SUBSET idents}

\* the state after State.load: the earlier run configured the catalog for its
\* own servers, and load_media reads the chapter files of active items only
ConfigureInit ==
    /\ \E catalog \in ConfigureCatalogs, earlier \in SUBSET Servers :
          LET active == {k \in DOMAIN catalog : GetItem(catalog[k], "server_id") \in earlier}
          IN /\ media = [k \in active |-> catalog[k]]
             /\ disabled_media = [k \in DOMAIN catalog \ active |->
                                     [catalog[k] EXCEPT !.chapters = EmptyMap]]
    /\ version = 1
    /\ bundles = EmptyMap
    /\ cookies = 0
    /\ cookie_hash = NoHash
    /\ hashes = EmptyMap
    /\ disk = EmptyMap
    /\ free_only = FALSE
    /\ pc = "running"
    /\ mig = NoCall
    /\ last = NoCall
    /\ io = NoIo
    /\ calls = 0

\* MediaReader.__init__ (or a later caller) configures the catalog for the
\* servers it has
ConfigureMedia ==
    /\ calls < MaxCalls
    /\ \E server_list \in SUBSET Servers :
          LET r == configure_media(media, disabled_media, server_list)
          IN /\ media' = r.media
             /\ disabled_media' = r.disabled_media
             /\ last' = [op |-> "configure_media", server_list |-> server_list,
                         media |-> media, disabled_media |-> disabled_media]
    /\ calls' = calls + 1
    /\ UNCHANGED <<version, bundles, cookies, cookie_hash, hashes, disk, free_only,
                   pc, mig, io>>

ConfigureNext == ConfigureMedia

SpecConfigure == ConfigureInit /\ [][ConfigureNext]_vars

Configured == last.op = "configure_media"

\* the catalog as one mapping: both partitions together
Catalog(active, disabled) ==
    [k \in DOMAIN active \cup DOMAIN disabled |->
        IF k \in DOMAIN active THEN active[k] ELSE disabled[k]]

\* C19: configure_media(servers) changes no item's fields or chapters and
\* loses no item; afterwards media holds exactly the catalog items whose
\* server_id is in servers, disabled_media exactly the others, and the two
\* share no key.
C19_ConfigurePartitions ==
    Configured =>
        /\ DOMAIN media \cap DOMAIN disabled_media = {}
        /\ Catalog(media, disabled_media) = Catalog(last.media, last.disabled_media)
        /\ \A k \in DOMAIN media : GetItem(media[k], "server_id") \in last.server_list
        /\ \A k \in DOMAIN disabled_media :
              GetItem(disabled_media[k], "server_id") \notin last.server_list

\* a call that moves items both ways, one of them with user fields and a chapter
C19_Witness ==
    /\ Configured
    /\ \E k \in DOMAIN media : k \in DOMAIN last.disabled_media
    /\ \E k \in DOMAIN disabled_media :
          /\ k \in DOMAIN last.media
          /\ UserFields(disabled_media[k]) = SetUser
          /\ DOMAIN disabled_media[k].chapters # {}


-----------------------------------------------------------------------------
(* SpecRunner: for_each over a list of items, run by the Concurrency Runner *)

MaxWorkers == 2
MaxClosures == 3

\* the items a batch is made over
RunnerItems == {"a", "b", "c"}

\* a variant whose closures all read the loop variable when they run: every
\* closure is applied to the last item
for_each_closures_LateBinding(media_list) ==
    [i \in 1..Len(media_list) |-> media_list[Len(media_list)]]

\* "[lambda x=media_data: func(x) for media_data in media_list]": closure i
\* carries item i as the default of its parameter
for_each_closures(media_list) == [i \in 1..Len(media_list) |-> media_list[i]]

\* a variant with no limit on the active closures
MaxActive_Unbounded(W) == MaxClosures

\* the number of closures the runner lets run at once: W of 0 or 1 is
\* strictly sequential
MaxActive(W) == IF W <= 1 THEN 1 ELSE W

\* a variant that returns as soon as an error is captured in raise_on_error mode
Drained_UntilError(status, errors, raiseException) ==
    \/ \A i \in DOMAIN status : status[i] = "done"
    \/ (raiseException /\ errors # <<>>)

\* the batch has drained: every submitted closure has finished
Drained(status, errors, raiseException) == \A i \in DOMAIN status : status[i] = "done"

\* func(x): the value of a closure that returns, the error of one that raises
RunClosure(x, fails) == IF x \in fails THEN [error |-> x] ELSE [value |-> x]

\* the result list: the values of the closures that returned, in input order
CollectResults(slots) ==
    FilterSeq([i \in 1..Len(slots) |->
                  IF "value" \in DOMAIN slots[i] THEN slots[i].value ELSE "none"],
              {i \in 1..Len(slots) : "value" \in DOMAIN slots[i]}, 1)

\* what strictly sequential execution of the closures returns
SequentialResults(media_list, fails) ==
    FilterSeq(media_list, {i \in 1..Len(media_list) : media_list[i] \notin fails}, 1)

RunnerInit ==
    /\ \E W \in 0..MaxWorkers, n \in 0..MaxClosures, fails \in SUBSET RunnerItems,
          raiseException \in BOOLEAN :
          \E media_list \in [1..n -> RunnerItems] :
             /\ \A i, j \in 1..n : i # j => media_list[i] # media_list[j]
             /\ mig = [op |-> "for_each", W |-> W, media_list |-> media_list,
                       fails |-> fails, raiseException |-> raiseException,
                       closures |-> for_each_closures(media_list),
                       status |-> [i \in 1..n |-> "queued"],
                       slots |-> [i \in 1..n |-> [none |-> TRUE]],
                       finished |-> <<>>, errors |-> <<>>, peak |-> 0]
    /\ media = EmptyMap
    /\ disabled_media = EmptyMap
    /\ version = 1
    /\ bundles = EmptyMap
    /\ cookies = 0
    /\ cookie_hash = NoHash
    /\ hashes = EmptyMap
    /\ disk = EmptyMap
    /\ free_only = FALSE
    /\ pc = "job"
    /\ last = NoCall
    /\ io = NoIo
    /\ calls = 0

RunnerFrame == UNCHANGED <<media, disabled_media, version, bundles, cookies, cookie_hash,
                           hashes, disk, free_only, io, calls>>

Active == {i \in DOMAIN mig.status : mig.status[i] = "running"}

\* a free worker takes the next closure of the queue
RunnerStart ==
    /\ pc = "job"
    /\ Cardinality(Active) < MaxActive(mig.W)
    /\ \E i \in DOMAIN mig.status :
          /\ mig.status[i] = "queued"
          /\ \A j \in 1..(i - 1) : mig.status[j] # "queued"
          /\ mig' = [mig EXCEPT !.status[i] = "running",
                                !.peak = Max({@, Cardinality(Active) + 1})]
    /\ UNCHANGED <<pc, last>>
    /\ RunnerFrame

\* a running closure returns: its value is kept at its input position
RunnerFinish ==
    /\ pc = "job"
    /\ \E i \in Active :
          /\ "value" \in DOMAIN RunClosure(mig.closures[i], mig.fails)
          /\ mig' = [mig EXCEPT !.status[i] = "done",
                                !.slots[i] = RunClosure(mig.closures[i], mig.fails),
                                !.finished = Append(@, i)]
    /\ UNCHANGED <<pc, last>>
    /\ RunnerFrame

\* a running closure raises: its error is captured
RunnerFinishRaises ==
    /\ pc = "job"
    /\ \E i \in Active :
          /\ "error" \in DOMAIN RunClosure(mig.closures[i], mig.fails)
          /\ mig' = [mig EXCEPT !.status[i] = "done",
                                !.slots[i] = RunClosure(mig.closures[i], mig.fails),
                                !.finished = Append(@, i),
                                !.errors = Append(@, i)]
    /\ UNCHANGED <<pc, last>>
    /\ RunnerFrame

RunnerEnd(raised) ==
    /\ pc = "job"
    /\ Drained(mig.status, mig.errors, mig.raiseException)
    /\ raised = (mig.raiseException /\ mig.errors # <<>>)
    /\ last' = [op |-> "for_each", raised |-> raised, W |-> mig.W,
                media_list |-> mig.media_list, fails |-> mig.fails,
                raiseException |-> mig.raiseException,
                error |-> IF raised THEN mig.slots[mig.errors[1]] ELSE [none |-> TRUE],
                results |-> IF raised THEN <<>> ELSE CollectResults(mig.slots),
                status |-> mig.status, finished |-> mig.finished, peak |-> mig.peak]
    /\ pc' = IF raised THEN "raised" ELSE "returned"
    /\ UNCHANGED mig
    /\ RunnerFrame

\* Job.run returns the result list
RunnerReturn == RunnerEnd(FALSE)

\* Job.run re-raises the first captured error
RunnerRaise == RunnerEnd(TRUE)

RunnerNext ==
    \/ RunnerStart
    \/ RunnerFinish
    \/ RunnerFinishRaises
    \/ RunnerReturn
    \/ RunnerRaise

SpecRunner == RunnerInit /\ [][RunnerNext]_vars

Ran == last.op = "for_each"

\* C21: the runner returns the results in the order of the input closures
\* for every worker count and interleaving: the list is what strictly
\* sequential execution returns, whatever W is.
C21_ResultsInInputOrder ==
    (Ran /\ ~last.raised) => last.results = SequentialResults(last.media_list, last.fails)

\* two workers, the second closure finished before the first
C21_Witness ==
    /\ Ran /\ ~last.raised
    /\ last.W = 2
    /\ Len(last.results) >= 2
    /\ last.finished[1] # 1

\* C22: at every moment of a batch the closures started and not finished
\* are at most W (at most 1 when W is 0 or 1).
C22_AtMostWActive ==
    pc = "job" => Cardinality(Active) <= (IF mig.W <= 1 THEN 1 ELSE mig.W)

\* two closures are active under W = 2 while a third waits
C22_Witness ==
    /\ pc = "job"
    /\ mig.W = 2
    /\ Cardinality(Active) = 2
    /\ \E i \in DOMAIN mig.status : mig.status[i] = "queued"

\* C23: with raise_on_error the first captured error is re-raised only after
\* every submitted closure has finished; in the default mode a failing
\* closure raises nothing and the results of all the others are returned.
C23_RaisesAfterDrain ==
    Ran =>
        /\ \A i \in DOMAIN last.status : last.status[i] = "done"
        /\ last.raised =>
              /\ last.raiseException
              /\ \E i \in 1..Len(last.media_list) :
                    /\ last.media_list[i] \in last.fails
                    /\ last.error = [error |-> last.media_list[i]]
        /\ ~last.raiseException =>
              /\ ~last.raised
              /\ \A i \in 1..Len(last.media_list) :
                    last.media_list[i] \notin last.fails =>
                        \E k \in 1..Len(last.results) : last.results[k] = last.media_list[i]

\* an error was captured while another closure was still running, and was
\* re-raised after that closure finished
C23_Witness ==
    /\ Ran /\ last.raised
    /\ Len(last.finished) >= 2
    /\ last.media_list[last.finished[1]] \in last.fails
    /\ last.peak = 2

-----------------------------------------------------------------------------
(* SpecInterrupt: the process is killed while State.save writes a file *)

\* what a file holds when the process dies between open(file_name, "w"),
\* which truncates it, and the end of write(json_str): a proper prefix
Torn(json_str) == [torn_prefix_of |-> json_str]

\* the disk after a kill inside the "with open(...)" block of save_to_file:
\* before the open, after the open truncated the file, or after the whole
\* string was written
InterruptedWrite(dk, file_name, json_str, cut) ==
    IF cut = "before_open" THEN [disk |-> dk, torn |-> FALSE]
    ELSE IF cut = "truncated" THEN [disk |-> Put(dk, file_name, Torn(json_str)), torn |-> TRUE]
    ELSE [disk |-> Put(dk, file_name, json_str), torn |-> FALSE]

\* State.save() killed inside its k-th save_to_file, the earlier ones done
PersistSaveInterrupted ==
    /\ pc = "running"
    /\ ~CookiesChanged
    /\ LET jobs == SaveJobs(bundles, media, disabled_media, version)
       IN \E k \in 1..Len(jobs) :
             LET before == SaveAll([hashes |-> hashes, disk |-> disk, written |-> {},
                                    failed |-> {}], SubSeq(jobs, 1, k - 1), {}, 1)
                 r == save_to_file(before.hashes, before.disk, jobs[k].file,
                                   jobs[k].payload, FALSE)
             IN /\ r.wrote
                /\ hashes' = r.hashes
                /\ \E cut \in {"before_open", "truncated", "written"} :
                      LET w == InterruptedWrite(before.disk, jobs[k].file,
                                                jobs[k].payload, cut)
                      IN /\ disk' = w.disk
                         /\ last' = [op |-> "save_interrupted", file |-> jobs[k].file,
                            torn |-> w.torn,
                            existed |-> jobs[k].file \in DOMAIN before.disk,
                            previous |-> IF jobs[k].file \in DOMAIN before.disk
                                         THEN before.disk[jobs[k].file] ELSE EmptyMap,
                            payload |-> jobs[k].payload]
    /\ pc' = "killed"
    /\ io' = [op |-> "save_interrupted", prev |-> io.op, written |-> {}, failed |-> {},
              prev_wrote |-> FALSE, clean |-> FALSE, kept |-> TRUE]
    /\ UNCHANGED <<media, disabled_media, version, bundles, cookies, cookie_hash,
                   free_only, mig, calls>>

InterruptNext ==
    \/ PersistLoad
    \/ PersistMarkRead
    \/ PersistSave
    \/ PersistSaveInterrupted

SpecInterrupt == PersistInit /\ [][InterruptNext]_vars

\* C24: a hard interrupt at any point of State.save() leaves no torn file:
\* the file being written holds its complete previous content (or is still
\* absent) or its complete new content.
C24_NoTornFile ==
    last.op = "save_interrupted" =>
        /\ ~last.torn
        /\ IF last.file \in DOMAIN disk
           THEN \/ disk[last.file] = last.payload
                \/ (last.existed /\ disk[last.file] = last.previous)
           ELSE ~last.existed

-----------------------------------------------------------------------------
(* Unread chapters, bundles and the mark commands (media_reader.py, state.py) *)

MaxLimit == 2

\* the catalog in the order of self.media.values()
ShelfKeys == <<"sa:1en", "sa:2en">>

\* MediaData.get_sorted_chapters: sorted() is stable, the chapters of equal
\* number stay in the mapping's order
get_sorted_chapters(m) ==
    LET ids == CHOOSE q \in SetToSeqs(DOMAIN m.chapters) :
                  \A i, j \in 1..Len(q) : i < j => q[i] < q[j]
    IN StableSort([i \in 1..Len(ids) |-> m.chapters[ids[i]]],
                  [i \in 1..Len(ids) |-> m.chapters[ids[i]].number])

\* the test of get_unreads on one chapter
Eligible(chapter, lastRead, any_unread) ==
    ~chapter.read /\ (any_unread \/ chapter.number > lastRead)

\* the chapters of one item that get_unreads considers, in the order it
\* visits them
ItemUnreads(m, any_unread) ==
    LET sorted == get_sorted_chapters(m)
    IN FilterSeq([i \in 1..Len(sorted) |-> [media_id |-> global_id(m), chapter |-> sorted[i]]],
                 {i \in 1..Len(sorted) : Eligible(sorted[i], get_last_read(m), any_unread)}, 1)

\* the chapters of the selected items that get_unreads considers
RECURSIVE AllUnreads(_, _, _, _)
AllUnreads(catalog, selected, any_unread, i) ==
    IF i > Len(ShelfKeys) THEN <<>>
    ELSE (IF ShelfKeys[i] \in selected
          THEN ItemUnreads(catalog[ShelfKeys[i]], any_unread) ELSE <<>>)
         \o AllUnreads(catalog, selected, any_unread, i + 1)

\* the loop of get_unreads with its one counter: a chapter is yielded, then
\* counted unless special, and the generator returns when the count is limit
RECURSIVE YieldUpTo(_, _, _, _)
YieldUpTo(cands, limit, i, count) ==
    IF i > Len(cands) THEN <<>>
    ELSE LET counted == count + (IF cands[i].chapter.special THEN 0 ELSE 1)
         IN IF limit # 0 /\ counted = limit THEN <<cands[i]>>
            ELSE <<cands[i]>> \o YieldUpTo(cands, limit, i + 1, counted)

\* MediaReader.get_unreads(media_type, name, limit=limit, any_unread=any_unread)
get_unreads(catalog, name, limit, any_unread) ==
    YieldUpTo(AllUnreads(catalog, Selected(catalog, name), any_unread, 1), limit, 1, 0)

\* bundle_unread_chapters: the entries of the bundle it records
bundle_data(unreads) ==
    [i \in 1..Len(unreads) |->
        [media_id |-> unreads[i].media_id, chapter_id |-> unreads[i].chapter.id]]

\* State.mark_bundle_as_read: the entries in order; a reference to an item
\* or chapter that is gone raises KeyError there
RECURSIVE mark_bundle_as_read(_, _, _)
mark_bundle_as_read(catalog, bundled_data, i) ==
    IF i > Len(bundled_data) THEN [media |-> catalog, raised |-> FALSE]
    ELSE IF bundled_data[i].media_id \notin DOMAIN catalog
            \/ bundled_data[i].chapter_id
                  \notin DOMAIN catalog[bundled_data[i].media_id].chapters
    THEN [media |-> catalog, raised |-> TRUE]
    ELSE mark_bundle_as_read(
            [catalog EXCEPT ![bundled_data[i].media_id].chapters[bundled_data[i].chapter_id].read
                               = TRUE],
            bundled_data, i + 1)

\* State.get_lead_media_data raises KeyError when the first entry's item is gone
LeadMissing(catalog, bundled_data) ==
    bundled_data # <<>> /\ bundled_data[1].media_id \notin DOMAIN catalog

(* SpecShelf: two items of one provider, the commands over their chapters *)

\* the chapter mappings of the first item: numbers, read and special flags vary
ShelfChapters ==
    UNION {{[id \in S |-> [ChapterData(id, f[id].number, FALSE, f[id].read)
                              EXCEPT !.special = f[id].special]] :
               f \in [S -> [number : Numbers, read : BOOLEAN, special : BOOLEAN]]} :
           S \in SUBSET ChapterIds}

\* what the provider of the items may list at an update
ShelfListings == {EmptyMap, MaxChapterId :> [number |-> 2, premium |-> FALSE]}

ShelfInit ==
    /\ \E chs \in ShelfChapters, second \in BOOLEAN, bundled \in BOOLEAN :
          LET x == [create_media_data("sa", "1", "", "en", "A") EXCEPT !.chapters = chs]
              y == [create_media_data("sa", "2", "", "en", "B")
                       EXCEPT !.chapters = 1 :> ChapterData(1, 1, FALSE, FALSE)]
              catalog == IF second THEN (global_id(x) :> x) @@ (global_id(y) :> y)
                         ELSE (global_id(x) :> x)
              unreads == get_unreads(catalog, "None", 0, FALSE)
          IN /\ media = catalog
             /\ bundles = IF bundled /\ unreads # <<>>
                          THEN "b0" :> bundle_data(unreads) ELSE EmptyMap
    /\ disabled_media = EmptyMap
    /\ version = 1
    /\ cookies = 0
    /\ cookie_hash = NoHash
    /\ hashes = EmptyMap
    /\ disk = EmptyMap
    /\ free_only = FALSE
    /\ pc = "running"
    /\ mig = NoCall
    /\ last = NoCall
    /\ io = NoIo
    /\ calls = 0

ShelfFrame == UNCHANGED <<disabled_media, version, cookies, cookie_hash, hashes, disk,
                          free_only, pc, mig, io>>

ShelfNames == {"None", "sa:1en", "sa:2en"}

RECURSIVE MarkReadAll(_, _, _, _, _, _)
MarkReadAll(catalog, selected, N, force, abs, i) ==
    IF i > Len(ShelfKeys) THEN catalog
    ELSE MarkReadAll(IF ShelfKeys[i] \in selected
                     THEN [catalog EXCEPT ![ShelfKeys[i]] = mark_read(@, N, force, abs)]
                     ELSE catalog,
                     selected, N, force, abs, i + 1)

\* the command "mark-unread [name]": mark_read(name, force=True, N=-1, abs=True)
ShelfMarkUnread ==
    /\ calls < MaxCalls
    /\ \E name \in ShelfNames :
          /\ media' = MarkReadAll(media, Selected(media, name), 0 - 1, TRUE, TRUE, 1)
          /\ last' = [op |-> "mark_unread", selected |-> Selected(media, name)]
    /\ calls' = calls + 1
    /\ UNCHANGED bundles
    /\ ShelfFrame

\* the command "offset name N"
ShelfOffset ==
    /\ calls < MaxCalls
    /\ \E key \in DOMAIN media, new_offset \in {0, 2} :
          media' = [media EXCEPT ![key] = offset(@, new_offset)]
    /\ last' = [op |-> "offset"]
    /\ calls' = calls + 1
    /\ UNCHANGED bundles
    /\ ShelfFrame

\* the command "mark-read [name]" with its defaults
ShelfMarkRead ==
    /\ calls < MaxCalls
    /\ \E name \in ShelfNames :
          media' = MarkReadAll(media, Selected(media, name), 0, FALSE, FALSE, 1)
    /\ last' = [op |-> "mark_read"]
    /\ calls' = calls + 1
    /\ UNCHANGED bundles
    /\ ShelfFrame

\* the command "download-unread [--limit L] [name]": the parser passes no
\* any_unread, download_unread_chapters keeps its default
ShelfDownloadUnread ==
    /\ calls < MaxCalls
    /\ \E name \in ShelfNames, limit \in 0..MaxLimit :
          last' = [op |-> "download_unread", name |-> name, limit |-> limit,
                   selected |-> Selected(media, name),
                   downloaded |-> get_unreads(media, name, limit, FALSE)]
    /\ calls' = calls + 1
    /\ UNCHANGED <<media, bundles>>
    /\ ShelfFrame

\* the command "bundle": the unread chapters, downloaded, recorded under the
\* name settings.bundle gives
ShelfBundle ==
    /\ calls < MaxCalls
    /\ "b1" \notin DOMAIN bundles
    /\ \E name \in ShelfNames, limit \in 0..MaxLimit :
          LET unreads == get_unreads(media, name, limit, FALSE)
          IN bundles' = IF unreads = <<>> THEN bundles
                        ELSE Put(bundles, "b1", bundle_data(unreads))
    /\ last' = [op |-> "bundle"]
    /\ calls' = calls + 1
    /\ UNCHANGED media
    /\ ShelfFrame

\* update_media on one item: the provider may have dropped chapters
ShelfUpdate ==
    /\ calls < MaxCalls
    /\ \E key \in DOMAIN media, replace \in BOOLEAN, listing \in ShelfListings :
          media' = [media EXCEPT ![key] = update_media(@, replace, listing, FALSE, free_only).m]
    /\ last' = [op |-> "update_media"]
    /\ calls' = calls + 1
    /\ UNCHANGED bundles
    /\ ShelfFrame

\* the command "remove id": remove_media leaves the bundles as they are
ShelfRemove ==
    /\ calls < MaxCalls
    /\ \E key \in DOMAIN media : media' = remove_media(media, media[key])
    /\ last' = [op |-> "remove"]
    /\ calls' = calls + 1
    /\ UNCHANGED bundles
    /\ ShelfFrame

\* the command "read name": the viewer is opened on a known bundle and
\* reports success or failure
ShelfReadBundle ==
    /\ calls < MaxCalls
    /\ \E bundle_name \in DOMAIN bundles, viewer_ok \in BOOLEAN :
          LET lead_missing == LeadMissing(media, bundles[bundle_name])
              r == mark_bundle_as_read(media, bundles[bundle_name], 1)
          IN /\ media' = IF lead_missing \/ ~viewer_ok THEN media ELSE r.media
             /\ last' = [op |-> "read_bundle", bundle |-> bundles[bundle_name],
                         pre |-> media,
                         viewer |-> IF lead_missing THEN "not_opened"
                                    ELSE IF viewer_ok THEN "success" ELSE "failure",
                         raised |-> lead_missing \/ (viewer_ok /\ r.raised)]
    /\ calls' = calls + 1
    /\ UNCHANGED bundles
    /\ ShelfFrame

ShelfNext ==
    \/ ShelfMarkUnread
    \/ ShelfOffset
    \/ ShelfMarkRead
    \/ ShelfDownloadUnread
    \/ ShelfBundle
    \/ ShelfUpdate
    \/ ShelfRemove
    \/ ShelfReadBundle

SpecShelf == ShelfInit /\ [][ShelfNext]_vars

\* C25: the mark-unread command (mark_read with force, N = -1, abs) leaves
\* every chapter of every selected item unread, whatever the chapters'
\* numbers are.
C25_MarkUnreadClearsAll ==
    last.op = "mark_unread" =>
        \A k \in last.selected : \A id \in DOMAIN media[k].chapters :
           ~media[k].chapters[id].read

\* C26: download_unread_chapters with no limit downloads every chapter of
\* the selected items that has read = false, those numbered at or below the
\* item's last read number included.
C26_DownloadsEveryUnread ==
    (last.op = "download_unread" /\ last.limit = 0) =>
        \A k \in last.selected : \A id \in DOMAIN media[k].chapters :
           ~media[k].chapters[id].read =>
              \E i \in 1..Len(last.downloaded) :
                 /\ last.downloaded[i].media_id = k
                 /\ last.downloaded[i].chapter.id = id

\* the non-special entries of a list of unread chapters
NonSpecial(unreads) ==
    FilterSeq(unreads, {i \in 1..Len(unreads) : ~unreads[i].chapter.special}, 1)

\* C27: with limit L > 0 the limit applies per series: for each selected
\* item the call yields the item's first min(L, k) non-special unread
\* chapters in ascending number order, k being the item's count of them.
C27_LimitPerSeries ==
    (last.op = "download_unread" /\ last.limit > 0) =>
        \A k \in last.selected :
           LET own == NonSpecial(ItemUnreads(media[k], FALSE))
               got == NonSpecial(FilterSeq(last.downloaded,
                          {i \in 1..Len(last.downloaded) : last.downloaded[i].media_id = k}, 1))
           IN got = SubSeq(own, 1, IF Len(own) < last.limit THEN Len(own) ELSE last.limit)

\* C28: mark_bundle_as_read sets read on every chapter the bundle refers to
\* and changes no other read flag; read_bundle does so only when the viewer
\* reports success and otherwise changes no read flag.
C28_BundleMarksItsChapters ==
    last.op = "read_bundle" =>
        IF last.viewer = "success"
        THEN \A k \in DOMAIN last.pre : \A id \in DOMAIN last.pre[k].chapters :
                /\ k \in DOMAIN media /\ id \in DOMAIN media[k].chapters
                /\ media[k].chapters[id].read =
                      (\/ last.pre[k].chapters[id].read
                       \/ \E i \in 1..Len(last.bundle) :
                             /\ last.bundle[i].media_id = k
                             /\ last.bundle[i].chapter_id = id)
        ELSE media = last.pre

\* C35: every entry of every stored bundle refers to an item of the active
\* catalog and to a chapter that item has, so mark_bundle_as_read finds every
\* item and chapter it indexes.
C35_BundlesReferToCatalog ==
    \A b \in DOMAIN bundles : \A i \in 1..Len(bundles[b]) :
        /\ bundles[b][i].media_id \in DOMAIN media
        /\ bundles[b][i].chapter_id \in DOMAIN media[bundles[b][i].media_id].chapters

-----------------------------------------------------------------------------
(* SpecAvail: runs of the program with and without an item's provider *)

\* State.load on the files dk: the index decoded, the active items rekeyed
\* and given the chapters of their files, the hashes seeded by the reads
LoadResult(dk) ==
    LET has_index == MetadataFile \in DOMAIN dk
        doc == dk[MetadataFile]
        active == IF has_index THEN [k \in DOMAIN doc.media |-> json_decoder(doc.media[k])]
                  ELSE EmptyMap
        disabled == IF has_index
                    THEN [k \in DOMAIN doc.disabled_media |->
                             json_decoder(doc.disabled_media[k])]
                    ELSE EmptyMap
        rekeyed == Rekeyed(active)
        h1 == IF BundleFile \in DOMAIN dk
              THEN SeedHash(EmptyMap, BundleFile, dk[BundleFile]) ELSE EmptyMap
        h2 == IF has_index THEN SeedHash(h1, MetadataFile, DecodedIndexDoc(doc)) ELSE h1
    IN [media |-> [g \in DOMAIN rekeyed |-> WithLoadedChapters(rekeyed[g], dk)],
        disabled_media |-> disabled,
        version |-> IF has_index THEN doc.version ELSE 0,
        bundles |-> IF BundleFile \in DOMAIN dk THEN dk[BundleFile] ELSE EmptyMap,
        hashes |-> [f \in DOMAIN h2 \cup ChapterFilesRead(rekeyed, dk) |->
                       IF f \in DOMAIN h2 THEN h2[f] ELSE get_hash(dk[f])[1]]]

\* the item of the runs
AvailItem == create_media_data("sa", "1", "", "en", "A")

\* the files run 1 leaves, the provider loaded: the item active in the
\* index, its chapters S in its chapter file
AvailInit ==
    /\ \E S \in ChapterMaps(ChapterIds, Numbers) \ {EmptyMap}, ver \in {0, 1} :
          /\ disk = (MetadataFile :> AllMediaDoc(global_id(AvailItem) :> AvailItem, EmptyMap, ver))
                    @@ (ChapterFile(AvailItem) :> S)
                    @@ (BundleFile :> EmptyMap)
          /\ mig = [op |-> "runs", S |-> S, loaded |-> <<>>]
    /\ media = EmptyMap
    /\ disabled_media = EmptyMap
    /\ version = 0
    /\ bundles = EmptyMap
    /\ cookies = 0
    /\ cookie_hash = Hash(0)
    /\ hashes = EmptyMap
    /\ free_only = FALSE
    /\ pc = "boot"
    /\ last = NoCall
    /\ io = NoIo
    /\ calls = 0

\* MediaReader.__init__ of a new process with the given providers:
\* state.load(), then state.configure_media(self._servers)
AvailStart ==
    /\ pc = "boot"
    /\ calls < MaxCalls
    /\ \E server_list \in SUBSET Servers :
          LET l == LoadResult(disk)
              c == configure_media(l.media, l.disabled_media, server_list)
          IN /\ media' = c.media
             /\ disabled_media' = c.disabled_media
             /\ version' = l.version
             /\ bundles' = l.bundles
             /\ hashes' = l.hashes
             /\ mig' = [mig EXCEPT !.loaded = Append(@, "sa" \in server_list)]
             /\ last' = [op |-> "start", server_list |-> server_list]
    /\ pc' = "running"
    /\ calls' = calls + 1
    /\ UNCHANGED <<cookies, cookie_hash, disk, free_only, io>>

\* the run ends: State.save()
AvailSave ==
    /\ pc = "running"
    /\ LET r == SaveAll([hashes |-> hashes, disk |-> disk, written |-> {}, failed |-> {}],
                        SaveJobs(bundles, media, disabled_media, version), {}, 1)
       IN /\ hashes' = r.hashes
          /\ disk' = r.disk
          /\ last' = [op |-> "run_saved", loaded |-> mig.loaded, written |-> r.written]
    /\ pc' = "boot"
    /\ UNCHANGED <<media, disabled_media, version, bundles, cookies, cookie_hash,
                   free_only, mig, io, calls>>

AvailNext == AvailStart \/ AvailSave

SpecAvail == AvailInit /\ [][AvailNext]_vars

\* C29: an item's chapters and their read flags survive its provider being
\* unavailable and later available again: after run 2 without the provider
\* and run 3 with it, each loading, configuring and saving, the item's
\* chapters in memory and its chapter file both equal the S run 1 saved.
C29_ChaptersSurviveDisabling ==
    (last.op = "run_saved" /\ last.loaded = <<FALSE, TRUE>>) =>
        /\ global_id(AvailItem) \in DOMAIN media
        /\ media[global_id(AvailItem)].chapters = mig.S
        /\ ChapterFile(AvailItem) \in DOMAIN disk
        /\ disk[ChapterFile(AvailItem)] = mig.S

-----------------------------------------------------------------------------
(* SpecUpgrade: upgrade_state over a loaded catalog (media_reader.py, state.py) *)

\* State.version, the version of the running program
StateVersion == 1

\* State.is_out_of_date: all_media.get("version", 0) != self.version
is_out_of_date(stored) == stored # StateVersion

\* a variant that leaves the stored version as it was
update_verion_Skipped(stored) == stored

\* State.update_verion: all_media["version"] = self.version
update_verion(stored) == StateVersion

UpgradeInit ==
    /\ \E r1, r2 \in {0} \cup Numbers, one \in BOOLEAN :
          LET m1 == [WithUserFields(create_media_data("sa", "1", "", "en", "A"), SetUser)
                        EXCEPT !.chapters = OldChapters(r1)]
              m2 == [WithUserFields(create_media_data("sa", "2", "", "en", "B"), OtherUser)
                        EXCEPT !.chapters = OldChapters(r2)]
          IN media = IF one THEN (global_id(m1) :> m1)
                     ELSE (global_id(m1) :> m1) @@ (global_id(m2) :> m2)
    /\ version \in {0, StateVersion}
    /\ disabled_media = EmptyMap
    /\ bundles = EmptyMap
    /\ cookies = 0
    /\ cookie_hash = NoHash
    /\ hashes = EmptyMap
    /\ disk = EmptyMap
    /\ free_only = FALSE
    /\ pc = "idle"
    /\ mig = NoCall
    /\ last = NoCall
    /\ io = NoIo
    /\ calls = 0

\* upgrade_state(force) when the test passes: the call enters
\* migrate(None, move_self=True, force_same_id=True)
UpgradeBegin ==
    /\ pc = "idle"
    /\ calls < MaxCalls
    /\ \E force \in BOOLEAN :
          /\ is_out_of_date(version) \/ force
          /\ \E order \in SetToSeqs(Selected(media, "None")) :
                mig' = [op |-> "migrate", name |-> "None", exact |-> FALSE,
                        move_self |-> TRUE, force_same_id |-> TRUE,
                        selected |-> [i \in 1..Len(order) |-> media[order[i]]],
                        media_list |-> <<>>, last_read_list |-> <<>>, j |-> 1,
                        force |-> force, stored |-> version,
                        follows |-> last.op = "upgrade_state" /\ ~last.raised,
                        after_migration |-> last.op = "upgrade_state" /\ last.migrated]
    /\ pc' = "migrate"
    /\ calls' = calls + 1
    /\ last' = [op |-> "upgrading"]
    /\ UNCHANGED <<media, disabled_media, version, bundles, cookies, cookie_hash,
                   hashes, disk, free_only, io>>

\* upgrade_state(force=False) when the stored version is current: nothing runs
UpgradeSkip ==
    /\ pc = "idle"
    /\ calls < MaxCalls
    /\ ~is_out_of_date(version)
    /\ last' = [op |-> "upgrade_state", raised |-> FALSE, migrated |-> FALSE,
                force |-> FALSE, stored |-> version, pre |-> media,
                follows |-> last.op = "upgrade_state" /\ ~last.raised,
                after_migration |-> last.op = "upgrade_state" /\ last.migrated]
    /\ calls' = calls + 1
    /\ UNCHANGED <<media, disabled_media, version, bundles, cookies, cookie_hash,
                   hashes, disk, free_only, pc, mig, io>>

\* migrate returned: update_verion(), and upgrade_state returns
UpgradeEnd ==
    /\ pc = "returned"
    /\ version' = update_verion(version)
    /\ last' = [op |-> "upgrade_state", raised |-> FALSE, migrated |-> TRUE,
                force |-> mig.force, stored |-> mig.stored, pre |-> media,
                follows |-> mig.follows, after_migration |-> mig.after_migration]
    /\ pc' = "idle"
    /\ mig' = NoCall
    /\ UNCHANGED <<media, disabled_media, bundles, cookies, cookie_hash,
                   hashes, disk, free_only, io, calls>>

\* the steps of the migrate call are those of SpecMigrate; with force_same_id
\* the only candidate is the removed item itself, never one already known
UpgradeNext ==
    \/ UpgradeBegin
    \/ UpgradeSkip
    \/ UpgradeEnd
    \/ MigrateItem
    \/ MigrateItemNotFound
    \/ MigrateItemUpdateRaises
    \/ MigrateUpdate
    \/ MigrateUpdateFails
    \/ MigrateMark

SpecUpgrade == UpgradeInit /\ [][UpgradeNext]_vars

\* C32: upgrade_state runs the self-migration exactly when the stored
\* version differs from the current one or force is set; after it returns
\* normally the stored version is the current one, so a non-forced
\* upgrade_state right after it migrates nothing and changes nothing; if the
\* self-migration raises, the stored version is not updated.
C32_VersionGatesUpgrade ==
    /\ pc \in {"migrate", "returned", "raised"} =>
          /\ mig.force \/ mig.stored # StateVersion
          /\ version = mig.stored
    /\ last.op = "upgrade_state" =>
          /\ version = StateVersion
          /\ last.migrated = (last.force \/ last.stored # StateVersion)
          /\ ~last.migrated => media = last.pre
          /\ (last.follows /\ ~last.force) => ~last.migrated

\* a migration that ran for an old version, then a non-forced call that did nothing
C32_Witness ==
    /\ last.op = "upgrade_state"
    /\ last.follows /\ last.after_migration /\ ~last.force /\ ~last.migrated
    /\ DOMAIN media # {}
-----------------------------------------------------------------------------
(* Successive offsets of one item (media_reader.py offset, args.py "offset") *)

\* Under SpecOffset numbers and offsets are written in eighths: 8 is 1.0,
\* 9 is 1.125, 56 is 7.0. The command line takes whole offsets only.
OffsetNumbers == {8, 9, 12, 16}
OffsetInputs == {0, 8, 56}

OffsetChapters ==
    UNION {{[id \in S |-> ChapterData(id, f[id], FALSE, FALSE)] : f \in [S -> OffsetNumbers]} :
           S \in (SUBSET ChapterIds) \ {{}}}

OffsetInit ==
    /\ \E chs \in OffsetChapters :
          LET x == [create_media_data("sa", "1", "", "en", "A") EXCEPT !.chapters = chs]
          IN /\ media = (global_id(x) :> x)
             /\ last = [op |-> "none", reported |-> chs, offsets |-> <<>>]
    /\ bundles = EmptyMap
    /\ disabled_media = EmptyMap
    /\ version = 1
    /\ cookies = 0
    /\ cookie_hash = NoHash
    /\ hashes = EmptyMap
    /\ disk = EmptyMap
    /\ free_only = FALSE
    /\ pc = "running"
    /\ mig = NoCall
    /\ io = NoIo
    /\ calls = 0

\* the command "offset name N"
OffsetCommand ==
    /\ calls < MaxCalls
    /\ \E key \in DOMAIN media, new_offset \in OffsetInputs :
          /\ media' = [media EXCEPT ![key] = offset(@, new_offset)]
          /\ last' = [last EXCEPT !.op = "offset", !.offsets = Append(@, new_offset)]
    /\ calls' = calls + 1
    /\ UNCHANGED bundles
    /\ ShelfFrame

OffsetNext == OffsetCommand

SpecOffset == OffsetInit /\ [][OffsetNext]_vars

\* what offset(k) alone makes of the numbers the provider reported
OffsetAlone(reported, k) ==
    [id \in DOMAIN reported |-> [reported[id] EXCEPT !.number = FloatSub(@, k)]]

\* C33: after any sequence of offsets the numbers and the offset field are
\* those the last offset alone gives to the reported numbers: offset(a) then
\* offset(b) is offset(b), offset(k) twice is offset(k) once, and offset(k)
\* then offset(0) gives the reported numbers back.
C33_OffsetIsAbsolute ==
    last.op = "offset" =>
        \A key \in DOMAIN media :
            /\ media[key].d["offset"] = last.offsets[Len(last.offsets)]
            /\ media[key].chapters = OffsetAlone(last.reported, media[key].d["offset"])

\* an offset of 7.0 followed by an offset of 0 has acted on a chapter 1.125
C33_Witness ==
    /\ last.op = "offset"
    /\ last.offsets = <<56, 0>>
    /\ \E id \in DOMAIN last.reported : last.reported[id].number = 9
-----------------------------------------------------------------------------
(* Repeated sync_progress on one linked item (media_reader.py sync_progress) *)

MaxSyncCalls == 5

\* Numbers in halves as under SpecTracker: the provider numbers the first
\* chapter 0.5 or 1.0 and may list a second chapter 1.5.
ResyncChapters ==
    {(1 :> ChapterData(1, n, FALSE, r)) : n \in {1, 2}, r \in BOOLEAN}
    \cup {(1 :> ChapterData(1, n, FALSE, r)) @@ (2 :> ChapterData(2, 3, FALSE, FALSE)) :
             n \in {1, 2}, r \in BOOLEAN}

ResyncInit ==
    /\ \E chs \in ResyncChapters :
          LET x0 == track(create_media_data("sa", "1", "", "en", "A"), PrimaryTracker, 7, "a!")
              x == [x0 EXCEPT !.chapters = chs]
          IN media = (global_id(x) :> x)
    /\ disabled_media = EmptyMap
    /\ version = 1
    /\ bundles = EmptyMap
    /\ cookies = 0
    /\ cookie_hash = NoHash
    /\ hashes = EmptyMap
    /\ disk = EmptyMap
    /\ free_only = FALSE
    /\ pc = "idle"
    /\ mig = NoCall
    /\ last = NoCall
    /\ io = NoIo
    /\ calls = 0

ResyncFrame == UNCHANGED <<disabled_media, version, bundles, cookies, cookie_hash,
                           hashes, disk, free_only, io, pc, mig>>

\* the command "offset name N" with a whole N
ResyncOffset ==
    /\ calls < MaxSyncCalls
    /\ \E key \in DOMAIN media, new_offset \in {0, 2} :
          media' = [media EXCEPT ![key] = offset(@, new_offset)]
    /\ last' = [op |-> "offset"]
    /\ calls' = calls + 1
    /\ ResyncFrame

\* the command "mark-read name" with its defaults
ResyncMarkRead ==
    /\ calls < MaxSyncCalls
    /\ \E key \in DOMAIN media :
          media' = [media EXCEPT ![key] = mark_read(@, 0, FALSE, FALSE)]
    /\ last' = [op |-> "mark_read"]
    /\ calls' = calls + 1
    /\ ResyncFrame

\* sync_progress(force, dry_run) as a whole, tracker.update returning or
\* raising: the record keeps whether the call before was a non-forced
\* sync_progress
ResyncProgress ==
    /\ calls < MaxSyncCalls
    /\ \E force \in BOOLEAN, dry_run \in BOOLEAN, raises \in BOOLEAN :
          LET staged == Staged(media, force)
              called == staged # {} /\ ~dry_run
          IN /\ raises => called
             /\ media' = AdvanceProgress(media, staged)
             /\ last' = [op |-> "sync_progress", force |-> force, dry_run |-> dry_run,
                         pre |-> media, staged |-> staged, data |-> SyncData(media, staged),
                         called |-> called, raised |-> raises,
                         result |-> staged # {},
                         follows_sync |-> last.op = "sync_progress" /\ ~last.force
                                          /\ ~last.raised]
    /\ calls' = calls + 1
    /\ ResyncFrame

ResyncNext == ResyncOffset \/ ResyncMarkRead \/ ResyncProgress

SpecResync == ResyncInit /\ [][ResyncNext]_vars

\* C34: a non-forced sync_progress that directly follows a non-forced
\* sync_progress (no read flag changed in between) stages nothing, does not
\* call the tracker, leaves every progress as it was and returns False.
C34_SecondSyncIsIdle ==
    (last.op = "sync_progress" /\ ~last.force /\ last.follows_sync) =>
        /\ last.staged = {}
        /\ ~last.called
        /\ media = last.pre
        /\ ~last.result
-----------------------------------------------------------------------------
(* SpecKeys: the keys of the active catalog through load, add, remove, migrate *)

\* a variant of load_media's loop that leaves every item under its stored key
load_media_rekey_Never(catalog, snapshot, i) == catalog

\* load_media's loop over list(self.media.items()): an item stored under a
\* key that is not its global id is deleted there and stored under its id
RECURSIVE load_media_rekey(_, _, _)
load_media_rekey(catalog, snapshot, i) ==
    IF i > Len(snapshot) THEN catalog
    ELSE LET key == snapshot[i][1]
             media_data == snapshot[i][2]
         IN load_media_rekey(
                IF key # global_id(media_data)
                THEN Put(Without(catalog, key), global_id(media_data), media_data)
                ELSE catalog,
                snapshot, i + 1)

\* the items of the index file and of the add command
KeysItems == {create_media_data("sa", "1", "", "en", "A"),
              create_media_data("sa", "2", "", "en", "B")}

\* the keys the index file may hold them under
StoredKeys == {global_id(m) : m \in KeysItems} \cup {"old"}

\* before load_media's loop media is the "media" object of the index file
KeysInit ==
    /\ media \in UNION {[S -> KeysItems] : S \in SUBSET StoredKeys}
    /\ disabled_media = EmptyMap
    /\ version = 1
    /\ bundles = EmptyMap
    /\ cookies = 0
    /\ cookie_hash = NoHash
    /\ hashes = EmptyMap
    /\ disk = EmptyMap
    /\ free_only = FALSE
    /\ pc = "unloaded"
    /\ mig = NoCall
    /\ last = NoCall
    /\ io = NoIo
    /\ calls = 0

KeysFrame == UNCHANGED <<disabled_media, version, bundles, cookies, cookie_hash,
                         hashes, disk, free_only, mig>>

\* State.load_media: the file's order is the order of the loop
KeysLoad ==
    /\ pc = "unloaded"
    /\ \E order \in SetToSeqs(DOMAIN media) :
          media' = load_media_rekey(media, [i \in 1..Len(order) |-> <<order[i], media[order[i]]>>], 1)
    /\ pc' = "idle"
    /\ io' = [op |-> "load_media",
              stale |-> \E k \in DOMAIN media : k # global_id(media[k])]
    /\ last' = [op |-> "load_media"]
    /\ UNCHANGED calls
    /\ KeysFrame

\* add_media(media_data, no_update=True) of an item whose global id is new
KeysAdd ==
    /\ pc = "idle" /\ calls < MaxCalls
    /\ \E m \in KeysItems :
          /\ global_id(m) \notin DOMAIN media
          /\ media' = Put(media, global_id(m), m)
          /\ last' = [op |-> "add_media", raised |-> FALSE, item |-> m, pre |-> media]
    /\ calls' = calls + 1
    /\ UNCHANGED <<pc, io>>
    /\ KeysFrame

\* add_media raises ValueError: the global id is already known
KeysAddKnown ==
    /\ pc = "idle" /\ calls < MaxCalls
    /\ \E m \in KeysItems :
          /\ global_id(m) \in DOMAIN media
          /\ last' = [op |-> "add_media", raised |-> TRUE, item |-> m, pre |-> media]
    /\ calls' = calls + 1
    /\ UNCHANGED <<media, pc, io>>
    /\ KeysFrame

\* remove_media(id=key)
KeysRemove ==
    /\ pc = "idle" /\ calls < MaxCalls
    /\ \E key \in DOMAIN media : media' = remove_media(media, media[key])
    /\ last' = [op |-> "remove_media"]
    /\ calls' = calls + 1
    /\ UNCHANGED <<pc, io>>
    /\ KeysFrame

KeysNext ==
    \/ KeysLoad
    \/ KeysAdd
    \/ KeysAddKnown
    \/ KeysRemove
    \/ MigrateBegin
    \/ MigrateItem
    \/ MigrateItemNotFound
    \/ MigrateItemKnown
    \/ MigrateItemUpdateRaises
    \/ MigrateUpdate
    \/ MigrateUpdateFails
    \/ MigrateMark

SpecKeys == KeysInit /\ [][KeysNext]_vars

\* C36: once the catalog is loaded every key of the active catalog is the
\* global id of the item stored under it, through add, remove and migrate;
\* an add_media that raises for a known global id leaves the catalog as it was.
C36_KeysAreGlobalIds ==
    /\ pc # "unloaded" => \A k \in DOMAIN media : k = global_id(media[k])
    /\ (pc = "idle" /\ last.op = "add_media" /\ last.raised) =>
          /\ global_id(last.item) \in DOMAIN last.pre
          /\ media = last.pre

\* an add_media of a known id has raised on a catalog whose file had an item
\* under a key that was not its global id
C36_Witness ==
    /\ pc = "idle" /\ last.op = "add_media" /\ last.raised
    /\ io.op = "load_media" /\ io.stale
    /\ DOMAIN media # {}
-----------------------------------------------------------------------------
(* SpecFanout: the workers of for_each over the catalog in one call of
   update, of search_for_media or of migrate (its reconcile step) *)

\* a variant of get_media that may yield an item more than once
get_media_list_Repeating(catalog, name) ==
    UNION {[1..n -> Selected(catalog, name)] : n \in 0..MaxWorkers}

\* get_media(name=...) as for_each consumes it: the selected items of
\* self.media.values(), each once, in the order of the dict
get_media_list(catalog, name) == SetToSeqs(Selected(catalog, name))

FanoutInit ==
    /\ \E r \in {0} \cup Numbers :
          LET m1 == [WithUserFields(create_media_data("sa", "1", "", "en", "A"), SetUser)
                        EXCEPT !.chapters = OldChapters(r)]
              m2 == [WithUserFields(create_media_data("sa", "2", "", "en", "B"), OtherUser)
                        EXCEPT !.chapters = OldChapters(r)]
          IN media = (global_id(m1) :> m1) @@ (global_id(m2) :> m2)
    /\ disabled_media = EmptyMap
    /\ version = 1
    /\ bundles = EmptyMap
    /\ cookies = 0
    /\ cookie_hash = NoHash
    /\ hashes = SeedHash(EmptyMap, MetadataFile, "index")
    /\ disk = EmptyMap
    /\ free_only = FALSE
    /\ pc = "idle"
    /\ mig = NoCall
    /\ last = NoCall
    /\ io = NoIo
    /\ calls = 0

\* what for_each hands to the runner, and what the shared mappings hold then
FanoutJob(kind, W, batch, replace) ==
    [kind |-> kind, W |-> W, batch |-> batch, replace |-> replace,
     closures |-> for_each_closures(batch),
     status |-> [i \in 1..Len(batch) |-> "queued"],
     keys |-> DOMAIN media, hash_keys |-> DOMAIN hashes, peak |-> 0]

\* update(name, replace): for_each(func, self.get_media(name=name))
FanoutUpdate ==
    /\ pc = "idle"
    /\ \E name \in {"None", "A", "sa"}, W \in 1..MaxWorkers, replace \in BOOLEAN :
       \E batch \in get_media_list(media, name) :
          mig' = [op |-> "update"] @@ FanoutJob("update", W, batch, replace)
    /\ pc' = "job"
    /\ UNCHANGED <<media, last>>
    /\ MigrateFrame

\* search_for_media(term) without server_id: for_each(func, the servers)
FanoutSearch ==
    /\ pc = "idle"
    /\ \E W \in 1..MaxWorkers, batch \in SetToSeqs(Servers) :
          mig' = [op |-> "search_for_media"] @@ FanoutJob("search", W, batch, FALSE)
    /\ pc' = "job"
    /\ UNCHANGED <<media, last>>
    /\ MigrateFrame

\* migrate's "self.for_each(self.update_media, media_list)"
FanoutReconcile ==
    /\ InUpdates /\ mig.j = 1
    /\ \E W \in 1..MaxWorkers :
          mig' = mig @@ FanoutJob("migrate", W, mig.media_list, FALSE)
    /\ pc' = "job"
    /\ UNCHANGED <<media, last>>
    /\ MigrateFrame

\* a free worker takes the next closure of the queue
WorkerStart ==
    /\ pc = "job"
    /\ Cardinality(Active) < MaxActive(mig.W)
    /\ \E i \in DOMAIN mig.status :
          /\ mig.status[i] = "queued"
          /\ \A j \in 1..(i - 1) : mig.status[j] # "queued"
          /\ mig' = [mig EXCEPT !.status[i] = "running",
                                !.peak = Max({@, Cardinality(Active) + 1})]
    /\ UNCHANGED <<media, pc, last>>
    /\ MigrateFrame

\* a worker runs update_media on the item of its closure, the provider
\* answering or raising
WorkerUpdate ==
    /\ pc = "job" /\ mig.kind # "search"
    /\ \E i \in Active, listing \in FreeListings, raises \in BOOLEAN :
          /\ media' = [media EXCEPT ![mig.closures[i]] =
                          update_media(@, mig.replace, listing, raises, free_only).m]
          /\ mig' = [mig EXCEPT !.status[i] = "done"]
    /\ UNCHANGED <<pc, last>>
    /\ MigrateFrame

\* a worker runs server.search(term) on the provider of its closure
WorkerSearch ==
    /\ pc = "job" /\ mig.kind = "search"
    /\ \E i \in Active : mig' = [mig EXCEPT !.status[i] = "done"]
    /\ UNCHANGED <<media, pc, last>>
    /\ MigrateFrame

\* the batch has drained: update and search_for_media return, migrate goes
\* on to mark the new items
FanoutEnd ==
    /\ pc = "job"
    /\ Drained(mig.status, <<>>, FALSE)
    /\ IF mig.kind = "migrate"
       THEN /\ pc' = "migrate"
            /\ mig' = [mig EXCEPT !.j = Len(mig.media_list) + 1]
            /\ UNCHANGED last
       ELSE /\ pc' = "returned"
            /\ last' = [op |-> mig.op, batch |-> mig.batch, peak |-> mig.peak]
            /\ UNCHANGED mig
    /\ UNCHANGED media
    /\ MigrateFrame

FanoutNext ==
    \/ FanoutUpdate
    \/ FanoutSearch
    \/ FanoutReconcile
    \/ WorkerStart
    \/ WorkerUpdate
    \/ WorkerSearch
    \/ FanoutEnd
    \/ MigrateBegin
    \/ MigrateItem
    \/ MigrateItemNotFound
    \/ MigrateItemKnown
    \/ MigrateItemUpdateRaises
    \/ MigrateMark

SpecFanout == FanoutInit /\ [][FanoutNext]_vars

\* C37: while a batch of for_each runs, no two running workers have the
\* same item to write the chapters of, and the catalog mapping and the hash
\* table keep the entries they had when the batch began.
C37_WorkersOwnDisjointItems ==
    pc = "job" =>
        /\ mig.kind # "search" =>
              \A i, j \in Active : i # j => mig.closures[i] # mig.closures[j]
        /\ mig.kind # "search" => \A i \in Active : mig.closures[i] \in DOMAIN media
        /\ DOMAIN media = mig.keys
        /\ DOMAIN hashes = mig.hash_keys

\* two workers of one update run at once, one of them has already written
C37_Witness ==
    /\ pc = "job"
    /\ mig.kind = "update"
    /\ Cardinality(Active) = 1
    /\ mig.peak = 2
    /\ \E i \in DOMAIN mig.status : mig.status[i] = "done"
-----------------------------------------------------------------------------
(* SpecSession: workers of one Crunchyroll server whose session has expired
   (servers/crunchyroll.py get_session_id, session_get_json) *)

MaxSessionWorkers == 3

\* the workers that share the server object and its session
SessionWorkers == 1..MaxSessionWorkers

\* the session id of the cookie jar when the requests are built; the service
\* has expired it and numbers the sessions it starts 1, 2, ...
ExpiredSessionId == 0

\* url.format(session_id) and url.replace(old, new): a url is written as the
\* one session id it carries
url_replace(url, old, new) == IF url = old THEN new ELSE url

\* the answer of the service to a request: bad_session for the expired id
bad_session(url) == url = ExpiredSessionId

SessionInit ==
    /\ cookies = ExpiredSessionId
    /\ mig = [op |-> "session_get_json", lock |-> 0, started |-> 0,
              w |-> [w \in SessionWorkers |->
                       [at |-> "format", url |-> ExpiredSessionId,
                        expired_session_id |-> ExpiredSessionId,
                        session_id |-> ExpiredSessionId,
                        new_session_id |-> ExpiredSessionId,
                        retried |-> FALSE]]]
    /\ media = EmptyMap
    /\ disabled_media = EmptyMap
    /\ version = 1
    /\ bundles = EmptyMap
    /\ cookie_hash = NoHash
    /\ hashes = EmptyMap
    /\ disk = EmptyMap
    /\ free_only = FALSE
    /\ pc = "sessions"
    /\ last = NoCall
    /\ io = NoIo
    /\ calls = 0

SessionFrame == UNCHANGED <<media, disabled_media, version, bundles, cookie_hash, hashes,
                            disk, free_only, pc, last, io, calls>>

At(w, at) == pc = "sessions" /\ mig.w[w].at = at

\* the caller builds its url: "....format(self.get_session_id(), ...)"
SessionFormat ==
    \E w \in SessionWorkers :
        /\ At(w, "format")
        /\ mig' = [mig EXCEPT !.w[w].url = cookies, !.w[w].at = "get"]
        /\ UNCHANGED cookies
        /\ SessionFrame

\* session_get_json: "data = self.session_get(url).json()" and the test of
\* the answer
SessionGet ==
    \E w \in SessionWorkers :
        /\ At(w, "get")
        /\ mig' = [mig EXCEPT !.w[w].at = IF bad_session(mig.w[w].url) THEN "expired" ELSE "done"]
        /\ UNCHANGED cookies
        /\ SessionFrame

\* "expired_session_id = self.get_session_id()": the cookie as it is now
SessionReadExpired ==
    \E w \in SessionWorkers :
        /\ At(w, "expired")
        /\ mig' = [mig EXCEPT !.w[w].expired_session_id = cookies, !.w[w].at = "force"]
        /\ UNCHANGED cookies
        /\ SessionFrame

\* get_session_id(force=True): "session_id = self.session_get_cookie(...)"
SessionForceRead ==
    \E w \in SessionWorkers :
        /\ At(w, "force")
        /\ mig' = [mig EXCEPT !.w[w].session_id = cookies, !.w[w].at = "lock"]
        /\ UNCHANGED cookies
        /\ SessionFrame

\* "with self._lock:"
SessionLock ==
    \E w \in SessionWorkers :
        /\ At(w, "lock")
        /\ mig.lock = 0
        /\ mig' = [mig EXCEPT !.lock = w, !.w[w].at = "locked"]
        /\ UNCHANGED cookies
        /\ SessionFrame

\* under the lock the cookie has changed since it was read: it is returned
SessionReuse ==
    \E w \in SessionWorkers :
        /\ At(w, "locked")
        /\ mig.w[w].session_id # cookies
        /\ mig' = [mig EXCEPT !.lock = 0, !.w[w].new_session_id = cookies,
                              !.w[w].at = "retry"]
        /\ UNCHANGED cookies
        /\ SessionFrame

\* under the lock the cookie is the one read: start_session gives a new id
SessionStart ==
    \E w \in SessionWorkers :
        /\ At(w, "locked")
        /\ mig.w[w].session_id = cookies
        /\ cookies' = mig.started + 1
        /\ mig' = [mig EXCEPT !.lock = 0, !.started = @ + 1,
                              !.w[w].new_session_id = mig.started + 1,
                              !.w[w].at = "retry"]
        /\ SessionFrame

\* "new_url = url.replace(expired_session_id, new_session_id)" and the
\* second session_get
SessionRetry ==
    \E w \in SessionWorkers :
        /\ At(w, "retry")
        /\ mig' = [mig EXCEPT
                      !.w[w].url = url_replace(@, mig.w[w].expired_session_id,
                                               mig.w[w].new_session_id),
                      !.w[w].retried = TRUE, !.w[w].at = "done"]
        /\ UNCHANGED cookies
        /\ SessionFrame

SessionNext ==
    \/ SessionFormat
    \/ SessionGet
    \/ SessionReadExpired
    \/ SessionForceRead
    \/ SessionLock
    \/ SessionReuse
    \/ SessionStart
    \/ SessionRetry

SpecSession == SessionInit /\ [][SessionNext]_vars

\* C38: a worker that got bad_session for the expired session id sends its
\* second request with a session id started after the expiry, never with
\* the expired one, under every interleaving.
C38_RetryCarriesFreshId ==
    pc = "sessions" =>
        \A w \in SessionWorkers :
            mig.w[w].retried => (mig.w[w].url # ExpiredSessionId /\ mig.w[w].url \in 1..mig.started)
====
